---------------------------- MODULE Spec2Model ----------------------------
(***************************************************************************)
(* A model of the sudoku application of SudokuAPI: the Sudoku and          *)
(* SudokuSolution tables, the SudokuViewSet request handlers and the       *)
(* solve_sudoku Celery task.  Request handlers and tasks run concurrently: *)
(* every statement a handler or a task sends to the database or to the     *)
(* broker is one step, and the local computation between two statements    *)
(* belongs to one of the two steps.                                        *)
(***************************************************************************)
EXTENDS Integers, FiniteSets, Sequences, TLC

(***************************************************************************)
(* Bounds of the model.                                                    *)
(***************************************************************************)
MaxSudokus == 2     \* sudokus ever created (SpecAccess)
MaxTasks == 2       \* solver tasks ever dispatched (Spec)
MaxReq == 2         \* requests in flight at the same time (SpecRace)
OneReq == 1         \* requests in flight at the same time (Spec, SpecAccess)
OneSudoku == 1      \* sudokus ever created (Spec, SpecRace)
OneTask == 1        \* solver tasks ever dispatched (SpecAccess, SpecRace)
MaxChannels == 2    \* WebSocket connections open at the same time (SpecPush)
MaxRecords == 2     \* game records ever inserted (SpecGame)
OneRecord == 1      \* game records ever inserted (SpecInstance)

(***************************************************************************)
(* Program constants.                                                      *)
(***************************************************************************)
GridLen == 81       \* Sudoku.grid: max_length=81, MinLengthValidator(81)
NoTask == 0         \* Sudoku.task_id: null
default_limit == 5  \* _CustomLimitOffsetPagination.default_limit
max_limit == 25     \* _CustomLimitOffsetPagination.max_limit

CREATED == "Created"
PENDING == "Pending"
RUNNING == "Running"
COMPLETED == "Completed"
FAILED == "Failed"
ABORTED == "Aborted"
INVALID == "Invalid"
SudokuStatusChoices ==
    {CREATED, PENDING, RUNNING, COMPLETED, FAILED, ABORTED, INVALID}

SudokuDifficultyChoices == {"Unknown", "Easy", "Medium", "Hard"}

(***************************************************************************)
(* Requesters: two registered users and the anonymous requester, whose     *)
(* sudokus have user = None.                                               *)
(***************************************************************************)
Users == {"u1", "u2"}
Anon == "None"
Requesters == Users \cup {Anon}

SudokuIds == 1..MaxSudokus
TaskIds == 1..MaxTasks
Slots == 1..MaxReq

(***************************************************************************)
(* Request payloads.  A grid string is abstracted to the number of its     *)
(* leading and trailing whitespace characters (pad), the number of the     *)
(* characters between them (len) and a tag that tells grids of the same    *)
(* shape apart; Absent marks a key the payload does not carry.             *)
(***************************************************************************)
Absent == "<absent>"
Padded(len, tag, pad) == [len |-> len, tag |-> tag, pad |-> pad]
Grid(len, tag) == Padded(len, tag, 0)
NoGrid == Grid(-1, 0)
\* the number of characters of a grid string
GridLength(g) == g.len + g.pad
Payload(t, d, g, u) == [title |-> t, difficulty |-> d, grid |-> g, user |-> u]

CreatePayloads ==
    { Payload("a", Absent, Grid(GridLen, 1), "u2"),
      Payload("a", Absent, Padded(GridLen, 1, 1), Absent),
      Payload("a", "Easy", Grid(GridLen - 1, 1), Absent) }
\* update (PUT) and partial_update (PATCH) requests: <<payload, partial>>
UpdateInputs ==
    { <<Payload("b", "Easy", Grid(GridLen, 2), "u2"), FALSE>>,
      <<Payload("b", "Easy", Padded(GridLen, 2, 2), "u2"), FALSE>>,
      <<Payload("b", Absent, NoGrid, Absent), FALSE>>,
      <<Payload(Absent, Absent, NoGrid, "u2"), TRUE>>,
      <<Payload(Absent, Absent, Grid(GridLen + 1, 2), Absent), TRUE>> }
\* the requesters that create sudokus; the others only address them
Creators == {"u1", Anon}

\* the query parameters of a list request: <<difficulties, limit, offset>>,
\* an empty set and a zero standing for a parameter that is not given
ListParams ==
    { <<{}, 0, 0>>, <<{"Easy"}, 0, 0>>, <<{}, 1, 0>>, <<{}, 0, 1>> }

VARIABLES
    sudokus,     \* table Sudoku: id -> row, for the ids that exist
    solutions,   \* table SudokuSolution: a set of rows
    nextId,      \* number of sudokus created so far, plus one
    tasks,       \* the solver tasks dispatched so far, by task id
    reqs,        \* the requests in flight, by slot
    last,        \* the response returned by the step just taken, if any
    conns,       \* the accepted WebSocket connections: channel -> user
    groups,      \* the channel layer's groups: a set of <<group, channel>>
    received,    \* the group messages delivered: a set of <<channel, message>>
    records,     \* table GameRecord: id -> row, for the ids that exist
    stats,       \* table UserStats: user -> row
    nextRecord,  \* number of game records inserted so far, plus one
    instance,    \* a GameRecord instance built in memory, not yet saved
    answer,      \* the outcome of the last game or statistics operation
    cache,       \* django.core.cache: key -> value, for the keys that are set
    refreshing,  \* the users a refresh_user_stats task is dispatched for
    now,         \* the clock, timezone.now(), in hours
    cleanup,     \* the run of cleanup_anonymous_sudokus: its position, its locals
    detections   \* the runs of detect_sudoku_digits, by the order they started in

vars == <<sudokus, solutions, nextId, tasks, reqs, last, conns, groups, received,
          records, stats, nextRecord, instance, answer, cache, refreshing,
          now, cleanup, detections>>
\* the game records, their statistics and the operations on them
game == <<records, stats, nextRecord, instance, answer, cache, refreshing>>
\* what the request handlers and the solver task never write
\* the clock and the periodic task
timing == <<now, cleanup>>
aside == <<conns, groups, game, timing, detections>>
db == <<sudokus, solutions>>

Min(a, b) == IF a < b THEN a ELSE b
Max(a, b) == IF a > b THEN a ELSE b

(***************************************************************************)
(* Responses.                                                              *)
(***************************************************************************)
NoRow == [user |-> Anon, title |-> Absent, difficulty |-> Absent,
          grid |-> NoGrid, status |-> Absent, task_id |-> NoTask, created_at |-> 0]

Resp(op, u, s, code, detail) ==
    [op |-> op, user |-> u, sid |-> s, code |-> code, detail |-> detail,
     task_id |-> NoTask, row |-> NoRow, grid |-> NoGrid, ids |-> {}, count |-> 0,
     read |-> Absent, solution |-> 0]

NoResp == Resp("none", Anon, 0, 0, <<>>)
\* a step that returns no response
Quiet == last' = NoResp
\* the response of a step is handed to the client before the next step is
\* taken: no step reads `last`, so this orders the steps and loses none
Ready == last = NoResp

NoReq == [op |-> "none", pc |-> "idle", user |-> Anon, sid |-> 0,
          task_id |-> NoTask, row |-> NoRow, solution |-> 0, read |-> Absent]

(***************************************************************************)
(* Database helpers.                                                       *)
(***************************************************************************)
Exists(s) == s \in DOMAIN sudokus

InsertRow(f, s, row) == [x \in (DOMAIN f) \cup {s} |-> IF x = s THEN row ELSE f[x]]
DeleteRow(f, s) == [x \in (DOMAIN f) \ {s} |-> f[x]]

\* Model.save(): UPDATE of every field, and INSERT when no row was updated
SaveRow(f, s, row) == InsertRow(f, s, row)

\* Model.save(update_fields=[field]): UPDATE of one column; the caller
\* checks that the row exists (Django raises DatabaseError when no row is
\* affected)
SaveField(f, s, field, value) == [f EXCEPT ![s][field] = value]

SolutionsOf(s) == {x \in solutions : x.sudoku = s}

(***************************************************************************)
(* Permissions, visibility and validation.                                 *)
(***************************************************************************)
is_authenticated(u) == u \in Users

\* mutant: every action is open to everyone
get_permissions_Mutant(action, u) == TRUE

\* SudokuViewSet.get_permissions: TRUE when the action is permitted to u
get_permissions(action, u) ==
    IF action \in {"create", "retrieve", "list", "solve", "abort", "solution",
                   "delete_solution", "status"}
    THEN TRUE
    ELSE is_authenticated(u)

\* mutant: the queryset is not filtered by user
get_queryset_Mutant(u, difficulties) ==
    IF difficulties # {}
    THEN {s \in DOMAIN sudokus : sudokus[s].difficulty \in difficulties}
    ELSE DOMAIN sudokus

\* SudokuViewSet.get_queryset: the ids of the rows the requester may address
get_queryset(u, difficulties) ==
    LET owned == IF ~is_authenticated(u)
                 THEN {s \in DOMAIN sudokus : sudokus[s].user = Anon}
                 ELSE {s \in DOMAIN sudokus : sudokus[s].user = u}
    IN  IF difficulties # {}
        THEN {s \in owned : sudokus[s].difficulty \in difficulties}
        ELSE owned

\* GenericAPIView.get_object over get_queryset (no query parameters)
Visible(u, s) == s \in get_queryset(u, {})

\* _check_sudoku_ownership: TRUE when it builds the 403 response.  Every
\* handler calls it and discards what it returns.
_check_sudoku_ownership(row, u) == row.user # Anon /\ row.user # u

\* the serializer's validation of title, difficulty and grid
\* mutant: the minimum length is not validated
ValidGrid_Mutant(g) == GridLength(g) <= GridLen

\* max_length=81 and MinLengthValidator(81) on the grid
ValidGrid(g) == GridLength(g) = GridLen
\* the serializer's CharField (trim_whitespace) turns the string received
\* into the value that is validated and saved
to_internal_value(g) == [g EXCEPT !.pad = 0]
is_valid(p, partial) ==
    /\ (p.title = Absent => partial)
    /\ (p.difficulty # Absent => p.difficulty \in SudokuDifficultyChoices)
    /\ IF p.grid = NoGrid THEN partial ELSE ValidGrid(to_internal_value(p.grid))

\* mutant: a "user" value of the payload is applied as well
ApplyPayload_Mutant(row, p) ==
    [row EXCEPT !.title = IF p.title = Absent THEN @ ELSE p.title,
                !.difficulty = IF p.difficulty = Absent THEN @ ELSE p.difficulty,
                !.grid = IF p.grid = NoGrid THEN @ ELSE to_internal_value(p.grid),
                !.user = IF p.user = Absent THEN @ ELSE p.user]

\* validated_data applied to a row: only title, difficulty and grid are
\* writable serializer fields ("user" is no field, status and task_id are
\* read-only, the nested solution has read-only fields only)
ApplyPayload(row, p) ==
    [row EXCEPT !.title = IF p.title = Absent THEN @ ELSE p.title,
                !.difficulty = IF p.difficulty = Absent THEN @ ELSE p.difficulty,
                !.grid = IF p.grid = NoGrid THEN @ ELSE to_internal_value(p.grid)]

\* the row Sudoku.objects.create inserts: model defaults, created_at
\* (auto_now_add), then the payload
NewRow(owner, p) ==
    ApplyPayload([user |-> owner, title |-> Absent, difficulty |-> "Unknown",
                  grid |-> NoGrid, status |-> CREATED, task_id |-> NoTask,
                  created_at |-> now], p)

\* SudokuViewSet.perform_create: the owner given to serializer.save
perform_create(u) == IF is_authenticated(u) THEN u ELSE Anon

FreeSlots == Slots \ DOMAIN reqs
FreeSlot == CHOOSE r \in FreeSlots : \A q \in FreeSlots : r <= q

Begin(r) == reqs' = InsertRow(reqs, FreeSlot, r)
End(r) == reqs' = DeleteRow(reqs, r)
NewReq(op, pc, u, s) == [NoReq EXCEPT !.op = op, !.pc = pc, !.user = u, !.sid = s]

NotFound(op, u, s) == Resp(op, u, s, 404, <<"Not found.">>)
Unauthorized(op, u, s) ==
    Resp(op, u, s, 401, <<"Authentication credentials were not provided.">>)

(***************************************************************************)
(* create, retrieve, list, status: one statement each.                     *)
(***************************************************************************)
Create(u, p, maxSudokus) ==
    /\ Ready
    /\ nextId <= maxSudokus
    /\ IF ~is_valid(p, FALSE)
       THEN /\ last' = [Resp("create", u, 0, 400, <<"invalid">>) EXCEPT !.grid = p.grid]
            /\ UNCHANGED <<sudokus, received, nextId, aside>>
       ELSE /\ sudokus' = InsertRow(sudokus, nextId, NewRow(perform_create(u), p))
            /\ nextId' = nextId + 1
            /\ UNCHANGED received
            /\ last' = [Resp("create", u, nextId, 201, <<>>)
                          EXCEPT !.row = NewRow(perform_create(u), p)]
    /\ UNCHANGED <<solutions, tasks, reqs, aside>>

Retrieve(u, s) ==
    /\ Ready
    /\ last' = IF Visible(u, s)
               THEN [Resp("retrieve", u, s, 200, <<>>) EXCEPT !.row = sudokus[s]]
               ELSE NotFound("retrieve", u, s)
    /\ UNCHANGED <<sudokus, received, solutions, nextId, aside, tasks, reqs>>

\* LimitOffsetPagination over the queryset: the page holds
\* min(limit, count - offset) of its rows; which ones they are is decided by
\* created_at, which the model does not keep, so any such page is allowed.
PageSize(count, limit, offset) ==
    Min(IF limit = 0 THEN default_limit ELSE Min(limit, max_limit),
        Max(0, count - offset))

List(u, difficulties, limit, offset) ==
    LET qs == get_queryset(u, difficulties) IN
    /\ Ready
    /\ \E page \in SUBSET qs :
         /\ Cardinality(page) = PageSize(Cardinality(qs), limit, offset)
         /\ last' = [Resp("list", u, 0, 200, <<>>)
                       EXCEPT !.ids = page, !.count = Cardinality(qs),
                              !.read = <<difficulties, limit, offset>>]
    /\ UNCHANGED <<sudokus, received, solutions, nextId, aside, tasks, reqs>>

Status(u, s) ==
    /\ Ready
    /\ last' = IF Visible(u, s)
               THEN [Resp("status", u, s, 200, <<>>) EXCEPT !.read = sudokus[s].status]
               ELSE NotFound("status", u, s)
    /\ UNCHANGED <<sudokus, received, solutions, nextId, aside, tasks, reqs>>

(***************************************************************************)
(* update, partial_update: get_object, then SudokuSerializer.update saves  *)
(* the whole instance it read.                                             *)
(***************************************************************************)
UpdateBegin(u, s, p, partial, maxReq) ==
    LET op == IF partial THEN "partial_update" ELSE "update" IN
    /\ Ready
    /\ IF ~get_permissions(op, u)
       THEN last' = Unauthorized(op, u, s) /\ UNCHANGED reqs
       ELSE IF ~Visible(u, s)
       THEN last' = NotFound(op, u, s) /\ UNCHANGED reqs
       ELSE IF ~is_valid(p, partial)
       THEN /\ last' = [Resp(op, u, s, 400, <<"invalid">>) EXCEPT !.grid = p.grid]
            /\ UNCHANGED reqs
       ELSE /\ Cardinality(DOMAIN reqs) < maxReq
            /\ Begin([NewReq(op, "save", u, s)
                        EXCEPT !.row = ApplyPayload(sudokus[s], p), !.read = p.user])
            /\ Quiet
    /\ UNCHANGED <<sudokus, received, solutions, nextId, aside, tasks>>

UpdateSave(r) ==
    /\ Ready
    /\ r \in DOMAIN reqs
    /\ reqs[r].pc = "save"
    /\ sudokus' = SaveRow(sudokus, reqs[r].sid, reqs[r].row)
    /\ UNCHANGED received
    /\ last' = [Resp(reqs[r].op, reqs[r].user, reqs[r].sid, 200, <<>>)
                  EXCEPT !.row = reqs[r].row, !.read = reqs[r].read]
    /\ End(r)
    /\ UNCHANGED <<solutions, nextId, aside, tasks>>

(***************************************************************************)
(* destroy: get_object, then instance.delete(), which cascades to the      *)
(* solution (SudokuSolution.sudoku: on_delete=CASCADE).                    *)
(***************************************************************************)
DestroyBegin(u, s, maxReq) ==
    /\ Ready
    /\ IF ~get_permissions("destroy", u)
       THEN last' = Unauthorized("destroy", u, s) /\ UNCHANGED reqs
       ELSE IF ~Visible(u, s)
       THEN last' = NotFound("destroy", u, s) /\ UNCHANGED reqs
       ELSE /\ Cardinality(DOMAIN reqs) < maxReq
            /\ Begin(NewReq("destroy", "delete", u, s))
            /\ Quiet
    /\ UNCHANGED <<sudokus, received, solutions, nextId, aside, tasks>>

\* Model.delete with its cascade
CascadeDelete(s) ==
    /\ sudokus' = DeleteRow(sudokus, s)
    /\ solutions' = solutions \ SolutionsOf(s)
    /\ UNCHANGED received

DestroyDelete(r) ==
    /\ Ready
    /\ r \in DOMAIN reqs
    /\ reqs[r].pc = "delete"
    /\ CascadeDelete(reqs[r].sid)
    /\ last' = Resp("destroy", reqs[r].user, reqs[r].sid, 204, <<>>)
    /\ End(r)
    /\ UNCHANGED <<nextId, aside, tasks>>

(***************************************************************************)
(* Status writes.                                                          *)
(***************************************************************************)
\* update_sudoku_status: sudoku.save(update_fields=["status"]).  The caller
\* checks Exists(s): with no row the save raises DatabaseError.
\* the message update_sudoku_status sends
status_update(s, status) == [type |-> "status_update", sudoku_id |-> s, status |-> status]
\* the primary keys of sudokus and of users are uuid4 values: as strings, the
\* id of a sudoku and the id of a user are never the same
SudokuUuid(s) == ToString(s)
UserUuid(u) == u
\* the group update_sudoku_status sends to: f"sudoku_status_{sudoku.id}"
room_group_name(s) == <<"sudoku_status_", SudokuUuid(s)>>
\* channel_layer.group_send: the message reaches every channel of the group
group_send(group, message) ==
    received' = received \cup {<<x[2], message>> : x \in {y \in groups : y[1] = group}}

update_sudoku_status(s, status) ==
    /\ sudokus' = SaveField(sudokus, s, "status", status)
    /\ group_send(room_group_name(s), status_update(s, status))

\* sudoku.save(update_fields=["task_id"])
save_task_id(s, tid) ==
    /\ sudokus' = SaveField(sudokus, s, "task_id", tid)
    /\ UNCHANGED received

SetReq(r, pc) == reqs' = [reqs EXCEPT ![r].pc = pc]
At(r, op, pc) == r \in DOMAIN reqs /\ reqs[r].op = op /\ reqs[r].pc = pc

(***************************************************************************)
(* solve: POST .../solver                                                  *)
(***************************************************************************)
\* mutant: a completed sudoku is accepted as well
SolvableStatuses_Mutant == {CREATED, FAILED, ABORTED, COMPLETED}
SolvableStatuses == {CREATED, FAILED, ABORTED}

CannotSolve(u, s, status) ==
    Resp("solve", u, s, 400, <<"Cannot solve sudoku with status: ", status>>)
FailedToStart(u, s) == Resp("solve", u, s, 500, <<"Failed to start solving: ">>)

SolveBegin(u, s, maxReq) ==
    /\ Ready
    /\ IF ~Visible(u, s)
       THEN last' = NotFound("solve", u, s) /\ UNCHANGED reqs
       ELSE IF sudokus[s].status \notin SolvableStatuses
       THEN last' = CannotSolve(u, s, sudokus[s].status) /\ UNCHANGED reqs
       ELSE /\ Cardinality(DOMAIN reqs) < maxReq
            /\ Begin(NewReq("solve", "delay", u, s))
            /\ Quiet
    /\ UNCHANGED <<sudokus, received, solutions, nextId, aside, tasks>>

NewTask(s) ==
    [sid |-> s, pc |-> "queued", revoked |-> FALSE, result |-> Absent, error |-> Absent]

\* solve_sudoku.delay(pk): the task is queued under a fresh id, or the
\* broker cannot be reached and delay raises
SolveDelay(r, maxTasks) ==
    /\ Ready
    /\ At(r, "solve", "delay")
    /\ \/ /\ Len(tasks) < maxTasks
          /\ tasks' = Append(tasks, NewTask(reqs[r].sid))
          /\ reqs' = [reqs EXCEPT ![r].pc = "pending", ![r].task_id = Len(tasks) + 1]
          /\ Quiet
       \/ /\ last' = FailedToStart(reqs[r].user, reqs[r].sid)
          /\ End(r)
          /\ UNCHANGED tasks
    /\ UNCHANGED <<sudokus, received, solutions, nextId, aside>>

SolvePending(r) ==
    /\ Ready
    /\ At(r, "solve", "pending")
    /\ IF Exists(reqs[r].sid)
       THEN /\ update_sudoku_status(reqs[r].sid, PENDING)
            /\ SetReq(r, "task_id")
            /\ Quiet
       ELSE /\ last' = FailedToStart(reqs[r].user, reqs[r].sid)
            /\ End(r)
            /\ UNCHANGED <<sudokus, received>>
    /\ UNCHANGED <<solutions, nextId, aside, tasks>>

SolveTaskId(r) ==
    /\ Ready
    /\ At(r, "solve", "task_id")
    /\ IF Exists(reqs[r].sid)
       THEN /\ save_task_id(reqs[r].sid, reqs[r].task_id)
            /\ last' = [Resp("solve", reqs[r].user, reqs[r].sid, 200, <<"success">>)
                          EXCEPT !.task_id = reqs[r].task_id]
       ELSE /\ last' = FailedToStart(reqs[r].user, reqs[r].sid)
            /\ UNCHANGED <<sudokus, received>>
    /\ End(r)
    /\ UNCHANGED <<solutions, nextId, aside, tasks>>

(***************************************************************************)
(* abort: DELETE .../solver                                                *)
(***************************************************************************)
AbortableStatuses == {RUNNING, PENDING}

NoTaskFound(u, s) == Resp("abort", u, s, 400, <<"No task found to abort">>)
CannotAbort(u, s, status) ==
    Resp("abort", u, s, 400, <<"Cannot abort task with status: ", status>>)
AbortError(u, s) ==
    Resp("abort", u, s, 500, <<"An unexpected error occurred while aborting the job">>)
AbortUnavailable(u, s) ==
    Resp("abort", u, s, 503, <<"Service temporarily unavailable. Please try again later">>)

AbortBegin(u, s, maxReq) ==
    /\ Ready
    /\ IF ~Visible(u, s)
       THEN last' = NotFound("abort", u, s) /\ UNCHANGED reqs
       ELSE IF sudokus[s].task_id = NoTask
       THEN last' = NoTaskFound(u, s) /\ UNCHANGED reqs
       ELSE IF sudokus[s].status \notin AbortableStatuses
       THEN last' = CannotAbort(u, s, sudokus[s].status) /\ UNCHANGED reqs
       ELSE /\ Cardinality(DOMAIN reqs) < maxReq
            /\ Begin([NewReq("abort", "terminate", u, s)
                        EXCEPT !.task_id = sudokus[s].task_id])
            /\ Quiet
    /\ UNCHANGED <<sudokus, received, solutions, nextId, aside, tasks>>

\* current_app.control.terminate(task_id): a broadcast that returns before
\* any worker has acted on it
terminate(tid) == tasks' = [tasks EXCEPT ![tid].revoked = TRUE]

AbortTerminate(r) ==
    /\ Ready
    /\ At(r, "abort", "terminate")
    /\ \/ /\ terminate(reqs[r].task_id)
          /\ SetReq(r, "aborted")
          /\ Quiet
       \/ /\ \E resp \in {AbortUnavailable(reqs[r].user, reqs[r].sid),
                          AbortError(reqs[r].user, reqs[r].sid)} : last' = resp
          /\ End(r)
          /\ UNCHANGED tasks
    /\ UNCHANGED <<sudokus, received, solutions, nextId, aside>>

AbortStatus(r) ==
    /\ Ready
    /\ At(r, "abort", "aborted")
    /\ IF Exists(reqs[r].sid)
       THEN /\ update_sudoku_status(reqs[r].sid, ABORTED)
            /\ SetReq(r, "task_id")
            /\ Quiet
       ELSE /\ last' = AbortError(reqs[r].user, reqs[r].sid)
            /\ End(r)
            /\ UNCHANGED <<sudokus, received>>
    /\ UNCHANGED <<solutions, nextId, aside, tasks>>

AbortTaskId(r) ==
    /\ Ready
    /\ At(r, "abort", "task_id")
    /\ IF Exists(reqs[r].sid)
       THEN /\ save_task_id(reqs[r].sid, NoTask)
            /\ last' = Resp("abort", reqs[r].user, reqs[r].sid, 200, <<"success">>)
       ELSE /\ last' = AbortError(reqs[r].user, reqs[r].sid)
            /\ UNCHANGED <<sudokus, received>>
    /\ End(r)
    /\ UNCHANGED <<solutions, nextId, aside, tasks>>

(***************************************************************************)
(* solution: GET .../solution                                              *)
(***************************************************************************)
NotAvailableYet(u, s) ==
    Resp("solution", u, s, 404, <<"Sudoku solution is not available yet">>)
NoSolutionFound(op, u, s) ==
    Resp(op, u, s, 404, <<"No solution found for this sudoku">>)

\* sudoku.solution: the reverse one-to-one query
TheSolution(s) == CHOOSE x \in solutions : x.sudoku = s

\* mutant: a running sudoku passes the status check
SolutionReady_Mutant(status) == status \in {COMPLETED, RUNNING}
\* solution: the status check on the sudoku that was read
SolutionReady(status) == status = COMPLETED

SolutionBegin(u, s, maxReq) ==
    /\ Ready
    /\ IF ~Visible(u, s)
       THEN last' = NotFound("solution", u, s) /\ UNCHANGED reqs
       ELSE IF ~SolutionReady(sudokus[s].status)
       THEN last' = [NotAvailableYet(u, s) EXCEPT !.read = sudokus[s].status]
            /\ UNCHANGED reqs
       ELSE /\ Cardinality(DOMAIN reqs) < maxReq
            /\ Begin([NewReq("solution", "query", u, s) EXCEPT !.read = sudokus[s].status])
            /\ Quiet
    /\ UNCHANGED <<sudokus, received, solutions, nextId, aside, tasks>>

SolutionQuery(r) ==
    /\ Ready
    /\ At(r, "solution", "query")
    /\ last' = IF SolutionsOf(reqs[r].sid) # {}
               THEN [Resp("solution", reqs[r].user, reqs[r].sid, 200, <<>>)
                       EXCEPT !.grid = TheSolution(reqs[r].sid).grid,
                              !.read = reqs[r].read]
               ELSE [NoSolutionFound("solution", reqs[r].user, reqs[r].sid)
                       EXCEPT !.read = reqs[r].read]
    /\ End(r)
    /\ UNCHANGED <<sudokus, received, solutions, nextId, aside, tasks>>

(***************************************************************************)
(* delete_solution: DELETE .../solution                                    *)
(***************************************************************************)
NotYetCompleted(u, s) ==
    Resp("delete_solution", u, s, 409,
         <<"Cannot delete solution because sudoku is not yet completed">>)
ServerError(op, u, s) == Resp(op, u, s, 500, <<"Server Error (500)">>)

DeleteSolutionBegin(u, s, maxReq) ==
    /\ Ready
    /\ IF ~Visible(u, s)
       THEN last' = NotFound("delete_solution", u, s) /\ UNCHANGED reqs
       ELSE /\ Cardinality(DOMAIN reqs) < maxReq
            /\ Begin([NewReq("delete_solution", "query", u, s)
                        EXCEPT !.read = sudokus[s].status])
            /\ Quiet
    /\ UNCHANGED <<sudokus, received, solutions, nextId, aside, tasks>>

DeleteSolutionQuery(r) ==
    /\ Ready
    /\ At(r, "delete_solution", "query")
    /\ IF SolutionsOf(reqs[r].sid) = {}
       THEN /\ last' = [NoSolutionFound("delete_solution", reqs[r].user, reqs[r].sid)
                          EXCEPT !.read = reqs[r].read]
            /\ End(r)
       ELSE IF reqs[r].read # COMPLETED
       THEN /\ last' = [NotYetCompleted(reqs[r].user, reqs[r].sid)
                          EXCEPT !.read = reqs[r].read]
            /\ End(r)
       ELSE /\ reqs' = [reqs EXCEPT ![r].pc = "delete",
                                    ![r].solution = TheSolution(reqs[r].sid).id]
            /\ Quiet
    /\ UNCHANGED <<sudokus, received, solutions, nextId, aside, tasks>>

\* mutant: the solution row is not deleted
DeleteSolutionDelete_Mutant(r) ==
    /\ Ready
    /\ At(r, "delete_solution", "delete")
    /\ solutions' = solutions
    /\ SetReq(r, "created")
    /\ Quiet /\ UNCHANGED <<sudokus, received, nextId, aside, tasks>>

\* solution.delete(): DELETE by primary key
DeleteSolutionDelete(r) ==
    /\ Ready
    /\ At(r, "delete_solution", "delete")
    /\ solutions' = {x \in solutions : x.id # reqs[r].solution}
    /\ SetReq(r, "created")
    /\ Quiet /\ UNCHANGED <<sudokus, received, nextId, aside, tasks>>

DeleteSolutionStatus(r) ==
    /\ Ready
    /\ At(r, "delete_solution", "created")
    /\ IF Exists(reqs[r].sid)
       THEN /\ update_sudoku_status(reqs[r].sid, CREATED)
            /\ last' = [Resp("delete_solution", reqs[r].user, reqs[r].sid, 204, <<>>)
                          EXCEPT !.read = reqs[r].read,
                                 !.solution = reqs[r].solution]
       ELSE /\ last' = ServerError("delete_solution", reqs[r].user, reqs[r].sid)
            /\ UNCHANGED <<sudokus, received>>
    /\ End(r)
    /\ UNCHANGED <<solutions, nextId, aside, tasks>>

(***************************************************************************)
(* The solve_sudoku task.  SudokuResolver is an external library: what its *)
(* consistency check and its solver answer is chosen freely.               *)
(***************************************************************************)
TaskAt(t, pc) == t \in DOMAIN tasks /\ tasks[t].pc = pc
SetTask(t, pc) == tasks' = [tasks EXCEPT ![t].pc = pc]
\* an exception is raised: inside the try block the except block is next,
\* anywhere else the task ends without a result
Raise(t, pc, error) == tasks' = [tasks EXCEPT ![t].pc = pc, ![t].error = error]
EndTask(t, pc, result) == tasks' = [tasks EXCEPT ![t].pc = pc, ![t].result = result]

\* a status write inside the try block: the write, or DatabaseError when the
\* row is gone, which sends the task to its except block
TaskWrite(t, status, pc, result) ==
    IF Exists(tasks[t].sid)
    THEN /\ update_sudoku_status(tasks[t].sid, status)
         /\ EndTask(t, pc, result)
    ELSE /\ Raise(t, "except", "DatabaseError")
         /\ UNCHANGED <<sudokus, received>>

\* Sudoku.objects.get(id=sudoku_id); DoesNotExist leaves `sudoku` unbound,
\* so the except block raises in its turn and the task has no result.  A
\* revoked task is discarded by the worker that receives it.
TaskGet(t) ==
    /\ Ready
    /\ TaskAt(t, "queued")
    /\ ~tasks[t].revoked
    /\ IF Exists(tasks[t].sid)
       THEN SetTask(t, "got")
       ELSE Raise(t, "raised", "UnboundLocalError")
    /\ Quiet /\ UNCHANGED <<sudokus, received, solutions, nextId, aside, reqs>>

TaskRunning(t) ==
    /\ Ready
    /\ TaskAt(t, "got")
    /\ TaskWrite(t, RUNNING, "running", Absent)
    /\ Quiet /\ UNCHANGED <<solutions, nextId, aside, reqs>>

\* _check_consistency fails on the grid or on the solver's result
TaskInvalid(t) ==
    /\ Ready
    /\ TaskAt(t, "running")
    /\ TaskWrite(t, INVALID, "done", "failed")
    /\ Quiet /\ UNCHANGED <<solutions, nextId, aside, reqs>>

\* SudokuResolver raises: the except block is entered
TaskRaise(t) ==
    /\ Ready
    /\ TaskAt(t, "running")
    /\ Raise(t, "except", "SolverError")
    /\ Quiet /\ UNCHANGED <<sudokus, received, solutions, nextId, aside, reqs>>

\* SudokuSolution.objects.create(sudoku=sudoku, grid=solution_grid): the
\* INSERT, or IntegrityError when the sudoku is gone (foreign key) or has a
\* solution already (one-to-one)
\* mutant: the one-to-one constraint is not enforced
CanInsertSolution_Mutant(s) == Exists(s)
CanInsertSolution(s) == Exists(s) /\ SolutionsOf(s) = {}
SolvedGrid(g) == Grid(g.len, g.tag + 2)

TaskCreate(t) ==
    /\ Ready
    /\ TaskAt(t, "running")
    /\ IF CanInsertSolution(tasks[t].sid)
       THEN /\ solutions' = solutions \cup
                   {[id |-> t, sudoku |-> tasks[t].sid,
                     grid |-> SolvedGrid(sudokus[tasks[t].sid].grid)]}
            /\ SetTask(t, "created")
       ELSE /\ Raise(t, "except", "IntegrityError")
            /\ UNCHANGED solutions
    /\ Quiet /\ UNCHANGED <<sudokus, received, nextId, aside, reqs>>

TaskCompleted(t) ==
    /\ Ready
    /\ TaskAt(t, "created")
    /\ TaskWrite(t, COMPLETED, "done", "completed")
    /\ Quiet /\ UNCHANGED <<solutions, nextId, aside, reqs>>

\* except Exception: update_sudoku_status(sudoku, FAILED)
TaskExcept(t) ==
    /\ Ready
    /\ TaskAt(t, "except")
    /\ IF Exists(tasks[t].sid)
       THEN /\ update_sudoku_status(tasks[t].sid, FAILED)
            /\ EndTask(t, "done", "failed")
       ELSE /\ Raise(t, "raised", "DatabaseError")
            /\ UNCHANGED <<sudokus, received>>
    /\ Quiet /\ UNCHANGED <<solutions, nextId, aside, reqs>>

\* the worker acts on terminate: the process running the task is killed
TaskKilled(t) ==
    /\ Ready
    /\ t \in DOMAIN tasks
    /\ tasks[t].revoked
    /\ tasks[t].pc \in {"got", "running", "created", "except"}
    /\ SetTask(t, "killed")
    /\ Quiet /\ UNCHANGED <<sudokus, received, solutions, nextId, aside, reqs>>

(***************************************************************************)
(* cleanup_anonymous_sudokus(hours), run by a worker for the beat          *)
(* schedule, one run at a time: the cutoff, the count, the delete.         *)
(***************************************************************************)
NoCleanup == [pc |-> "idle", hours |-> 0, started |-> 0, count |-> 0,
              removed |-> {}, result |-> Absent]

\* timezone.now() - timedelta(hours=hours)
cutoff_time(run) == run.started - run.hours

\* the filter without user__isnull=True
old_anonymous_sudokus_Mutant(run) ==
    {s \in DOMAIN sudokus : sudokus[s].created_at < cutoff_time(run)}

\* Sudoku.objects.filter(user__isnull=True, created_at__lt=cutoff_time),
\* evaluated when a query is sent
old_anonymous_sudokus(run) ==
    {s \in DOMAIN sudokus :
        sudokus[s].user = Anon /\ sudokus[s].created_at < cutoff_time(run)}

CleanupStart(hours) ==
    /\ Ready
    /\ cleanup.pc = "idle"
    /\ cleanup' = [NoCleanup EXCEPT !.pc = "count", !.hours = hours, !.started = now]
    /\ Quiet
    /\ UNCHANGED <<sudokus, received, solutions, nextId, tasks, reqs, conns, groups,
                   game, now, detections>>

\* count = old_anonymous_sudokus.count()
CleanupCount ==
    /\ Ready
    /\ cleanup.pc = "count"
    /\ cleanup' = [cleanup EXCEPT !.pc = "delete",
                                  !.count = Cardinality(old_anonymous_sudokus(cleanup))]
    /\ Quiet
    /\ UNCHANGED <<sudokus, received, solutions, nextId, tasks, reqs, conns, groups,
                   game, now, detections>>

\* old_anonymous_sudokus.delete(), with its cascade, and the message
\* returned, kept as the number it carries
CleanupDelete ==
    /\ Ready
    /\ cleanup.pc = "delete"
    /\ LET ids == old_anonymous_sudokus(cleanup)
       IN  /\ sudokus' = [s \in (DOMAIN sudokus) \ ids |-> sudokus[s]]
           /\ solutions' = {x \in solutions : x.sudoku \notin ids}
           /\ cleanup' = [cleanup EXCEPT !.pc = "idle", !.removed = ids,
                                         !.result = cleanup.count]
    /\ Quiet
    /\ UNCHANGED <<received, nextId, tasks, reqs, conns, groups, game, now, detections>>

\* an hour passes
Tick(maxHours) ==
    /\ now < maxHours
    /\ now' = now + 1
    /\ UNCHANGED <<sudokus, received, solutions, nextId, tasks, reqs, last, conns,
                   groups, game, cleanup, detections>>

(***************************************************************************)
(* detect_sudoku_digits(image_data).  OpenCV and the classifier are        *)
(* external: an image is what they make of it, chosen freely.  The status  *)
(* names are those of DetectionStatusChoices, which the task imports:      *)
(* Running, Completed, Failed.                                             *)
(***************************************************************************)
\* what the pipeline meets on an image: nothing, cv2.imdecode returning
\* None, no four-sided contour, or an exception of a library call
Images == {"sudoku", "undecodable", "no contour", "exception"}

NewDetection(image) ==
    [image |-> image, pc |-> "queued", pushed |-> <<>>, result |-> Absent,
     message |-> Absent, grid |-> NoGrid]

\* update_sudoku_detection(status): group_send to "sudoku_detection_status";
\* the statuses sent by the run are kept in order
update_sudoku_detection(t, status) == [detections[t] EXCEPT !.pushed = Append(@, status)]

DetectionAt(t, pc) == t \in DOMAIN detections /\ detections[t].pc = pc
SetDetection(t, run) ==
    /\ detections' = [detections EXCEPT ![t] = run]
    /\ UNCHANGED <<sudokus, solutions, nextId, tasks, reqs, last, conns, groups,
                   received, game, timing>>

\* split_into_boxes: nine rows of nine boxes
split_into_boxes == 9 * 9

\* "".join(str(d) for d in digits): one character for each box, each digit
\* being a class index of one figure
DetectedGrid == Grid(split_into_boxes, 1)

\* a worker receives the task
DetectStart(image, maxDetections) ==
    /\ Len(detections) < maxDetections
    /\ detections' = Append(detections, NewDetection(image))
    /\ UNCHANGED <<sudokus, solutions, nextId, tasks, reqs, last, conns, groups,
                   received, game, timing>>

DetectRunning(t) ==
    /\ DetectionAt(t, "queued")
    /\ SetDetection(t, [update_sudoku_detection(t, RUNNING) EXCEPT !.pc = "decode"])

\* cv2.imdecode; `if image is None: return`
DetectDecode(t) ==
    /\ DetectionAt(t, "decode")
    /\ SetDetection(t, IF detections[t].image = "undecodable"
                       THEN [detections[t] EXCEPT !.pc = "done", !.result = "error",
                                                  !.message = "Failed to decode image"]
                       ELSE [detections[t] EXCEPT !.pc = "contour"])

\* resize, preprocess_image, findContours, get_biggest_contour;
\* `if biggest_contour.size == 0: return`
DetectContour(t) ==
    /\ DetectionAt(t, "contour")
    /\ SetDetection(t, IF detections[t].image = "no contour"
                       THEN [detections[t] EXCEPT
                               !.pc = "done", !.result = "error",
                               !.message = "No suitable sudoku grid contour found in the image"]
                       ELSE [detections[t] EXCEPT !.pc = "digits"])

\* the perspective transform, split_into_boxes, detect_digits, then
\* Completed is sent and the grid returned; an exception leads to the
\* except block
DetectDigits(t) ==
    /\ DetectionAt(t, "digits")
    /\ SetDetection(t, IF detections[t].image = "exception"
                       THEN [detections[t] EXCEPT !.pc = "except"]
                       ELSE [update_sudoku_detection(t, COMPLETED) EXCEPT
                               !.pc = "done", !.result = "success",
                               !.message = "Digit detection completed successfully",
                               !.grid = DetectedGrid])

\* except Exception: Failed is sent, an error returned
DetectExcept(t) ==
    /\ DetectionAt(t, "except")
    /\ SetDetection(t, [update_sudoku_detection(t, FAILED) EXCEPT
                          !.pc = "done", !.result = "error",
                          !.message = "Digit detection failed"])

(***************************************************************************)
(* SudokuStatusConsumer: a WebSocket connection of user u on               *)
(* ws/sudokus/<sudoku_id>/status/.  The consumer does not read the         *)
(* sudoku_id of the path.                                                  *)
(***************************************************************************)
Channels == 1..MaxChannels

\* the group connect joins and disconnect leaves
user_group_name(u) == <<"sudoku_status_", UserUuid(u)>>

\* connect: an anonymous connection is closed, another one joins the group
\* of its user and is accepted
Connect(u, c) ==
    /\ Ready
    /\ c \notin DOMAIN conns
    /\ IF ~is_authenticated(u)
       THEN UNCHANGED <<conns, groups>>
       ELSE /\ groups' = groups \cup {<<user_group_name(u), c>>}
            /\ conns' = InsertRow(conns, c, u)
    /\ Quiet
    /\ UNCHANGED <<sudokus, solutions, nextId, tasks, reqs, received, game, timing,
                   detections>>

\* disconnect: the connection leaves the group of its user
Disconnect(c) ==
    /\ Ready
    /\ c \in DOMAIN conns
    /\ groups' = groups \ {<<user_group_name(conns[c]), c>>}
    /\ conns' = DeleteRow(conns, c)
    /\ Quiet
    /\ UNCHANGED <<sudokus, solutions, nextId, tasks, reqs, received, game, timing,
                   detections>>

(***************************************************************************)
(* Game records: app/game_record/models.py.                                *)
(* A row keeps the fields the score, the status and the statistics depend  *)
(* on; time_taken is a number of seconds, completed_at is set or null.     *)
(* The three puzzle strings are taken as given and valid.                  *)
(***************************************************************************)
IN_PROGRESS == "in_progress"
GAME_COMPLETED == "completed"
ABANDONED == "abandoned"
STOPPED == "stopped"
GameStatusChoices == {IN_PROGRESS, GAME_COMPLETED, ABANDONED, STOPPED}

GameRow(u, status, won, score, hints, checks, deletions, time) ==
    [user |-> u, status |-> status, won |-> won, score |-> score,
     hints_used |-> hints, checks_used |-> checks, deletions |-> deletions,
     time_taken |-> time, completed_at |-> FALSE]

\* the field defaults of the model, for a user
NewGame(u) == GameRow(u, IN_PROGRESS, FALSE, 0, 0, 0, 0, 0)
NoGame == GameRow(Anon, Absent, FALSE, 0, 0, 0, 0, 0)

\* GameRecord.calculate_score without the final max(score, 0)
calculate_score_Mutant(g) ==
    IF ~(g.status = GAME_COMPLETED) \/ ~g.won
    THEN 0
    ELSE 1000 - g.hints_used * 100 - g.checks_used * 50 - g.deletions * 5
              - (g.time_taken \div 60) * 15

\* GameRecord.calculate_score
calculate_score(g) ==
    IF ~(g.status = GAME_COMPLETED) \/ ~g.won
    THEN 0
    ELSE LET base_score == 1000
             hints_penalty == g.hints_used * 100
             checks_penalty == g.checks_used * 50
             deletions_penalty == g.deletions * 5
             time_penalty == (g.time_taken \div 60) * 15
             score == base_score - hints_penalty - checks_penalty
                                 - deletions_penalty - time_penalty
         IN  Max(score, 0)

ScoreMismatch == "Score does not match the calculated score based on game performance."

\* GameRecord.clean: the errors it raises
clean(g) == IF g.score # calculate_score(g) THEN {ScoreMismatch} ELSE {}

Err(cond, message) == IF cond THEN {message} ELSE {}

\* Model.clean_fields: the validators of the fields
clean_fields(g) ==
    Err(g.score < 0, "Score cannot be negative")
    \cup Err(g.score > 1000, "Score cannot exceed 1000")
    \cup Err(g.hints_used < 0, "Hints used cannot be negative")
    \cup Err(g.hints_used > 3, "Hints used cannot exceed 3")
    \cup Err(g.checks_used < 0, "Checks used cannot be negative")
    \cup Err(g.checks_used > 3, "Checks used cannot exceed 3")
    \cup Err(g.deletions < 0, "Deletions made cannot be negative")
    \cup Err(g.status \notin GameStatusChoices, "Value is not a valid choice.")

\* Model.full_clean: clean_fields, then clean, the errors of both collected
full_clean(g) == clean_fields(g) \cup clean(g)

(***************************************************************************)
(* User statistics: app/user/models.py, app/user/signals.py.               *)
(***************************************************************************)
ZeroStats ==
    [total_games |-> 0, completed_games |-> 0, abandoned_games |-> 0,
     stopped_games |-> 0, in_progress_games |-> 0, won_games |-> 0,
     lost_games |-> 0, total_time_seconds |-> 0, total_score |-> 0,
     total_hints_used |-> 0]

GamesOf(recs, u) == {x \in DOMAIN recs : recs[x].user = u}

RECURSIVE Sum(_, _, _)
Sum(recs, ids, field) ==
    IF ids = {} THEN 0
    ELSE LET x == CHOOSE y \in ids : TRUE
         IN  recs[x][field] + Sum(recs, ids \ {x}, field)

\* the smallest time_taken of a non-empty set of rows
MinTime(recs, ids) ==
    LET x == CHOOSE y \in ids : \A z \in ids : recs[y].time_taken <= recs[z].time_taken
    IN  recs[x].time_taken

Count(recs, ids, field, value) == Cardinality({x \in ids : recs[x][field] = value})

\* queryset.aggregate(...) of recalculate_from_games; the durations are
\* timedelta values, here their seconds
aggregate(recs, ids) ==
    [total_games |-> Cardinality(ids),
     won_games |-> Count(recs, ids, "won", TRUE),
     lost_games |-> Count(recs, ids, "won", FALSE),
     completed_games |-> Count(recs, ids, "status", GAME_COMPLETED),
     abandoned_games |-> Count(recs, ids, "status", ABANDONED),
     stopped_games |-> Count(recs, ids, "status", STOPPED),
     in_progress_games |-> Count(recs, ids, "status", IN_PROGRESS),
     total_time_seconds |-> Sum(recs, ids, "time_taken"),
     best_time_seconds |-> MinTime(recs, ids),
     total_score |-> Sum(recs, ids, "score"),
     total_hints_used |-> Sum(recs, ids, "hints_used")]

\* `x or 0`, `x or None` keep x when it is truthy; a timedelta is truthy
\* when it is not zero
Truthy(x) == x # 0

\* UserStats.recalculate_from_games for the stats row of u.  The sum, the
\* average and the minimum of time_taken are timedelta values: when one of
\* them is not zero it is assigned to an IntegerField and self.save() raises
\* TypeError, so the row keeps what it had.  The average is not zero
\* exactly when the sum is not.
recalculate_from_games(recs, st, u) ==
    LET ids == GamesOf(recs, u)
        agg == aggregate(recs, ids)
    IN  IF ids = {}
        THEN [raised |-> FALSE, stats |-> [st EXCEPT ![u] = ZeroStats]]
        ELSE IF Truthy(agg.total_time_seconds) \/ Truthy(agg.best_time_seconds)
        THEN [raised |-> TRUE, stats |-> st]
        ELSE [raised |-> FALSE,
              stats |-> [st EXCEPT ![u] =
                            [f \in DOMAIN ZeroStats |-> agg[f]]]]

\* UserStats.get_or_create_for_user: a row made here is recalculated
get_or_create_for_user(recs, st, u) ==
    IF u \in DOMAIN st
    THEN [raised |-> FALSE, stats |-> st]
    ELSE recalculate_from_games(recs, InsertRow(st, u, ZeroStats), u)

\* signals.update_user_stats_on_game_save, GameRecordViewSet._update_user_stats
_update_user_stats(recs, st, u) ==
    LET made == get_or_create_for_user(recs, st, u)
    IN  IF made.raised THEN made ELSE recalculate_from_games(recs, made.stats, u)

(***************************************************************************)
(* The cache: django.core.cache, keys and the entries set under them.      *)
(***************************************************************************)
cache_delete(c, key) == [k \in (DOMAIN c) \ {key} |-> c[k]]
cache_set(c, key, value) == [k \in (DOMAIN c) \cup {key} |-> IF k = key THEN value ELSE c[k]]

\* f"user_stats_{user.id}"
user_stats_key(u) == "user_stats_" \o UserUuid(u)
\* f"leaderboard_{limit}"
leaderboard_key(limit) == "leaderboard_" \o ToString(limit)

\* GameRecord.save, its two cache.delete statements, which run before
\* full_clean and the write
save_cache(c, g) == cache_delete(cache_delete(c, user_stats_key(g.user)), "leaderboard")

\* GameRecord.save that keeps the score it is given
Recomputed_Mutant(g) == g

\* GameRecord.save, first statement: a completed record's score is computed
Recomputed(g) ==
    IF g.status = GAME_COMPLETED THEN [g EXCEPT !.score = calculate_score(g)] ELSE g

\* GameRecord.save of the instance g under the primary key id: full_clean,
\* the row written, then the post_save signal, which runs after the row is
\* committed
save(recs, st, id, g) ==
    LET row == Recomputed(g)
        errors == full_clean(row)
        written == InsertRow(recs, id, row)
        signal == _update_user_stats(written, st, row.user)
    IN  IF errors # {}
        THEN [raised |-> "ValidationError", errors |-> errors, records |-> recs, stats |-> st]
        ELSE IF signal.raised
        THEN [raised |-> "TypeError", errors |-> {}, records |-> written, stats |-> st]
        ELSE [raised |-> "", errors |-> {}, records |-> written, stats |-> signal.stats]

\* signals.update_user_stats_on_game_delete for a deleted row of u
update_user_stats_on_game_delete(recs, st, u) ==
    IF u \in DOMAIN st THEN recalculate_from_games(recs, st, u)
    ELSE [raised |-> FALSE, stats |-> st]

\* instance.delete(), queryset.delete() of rows of one user: the rows are
\* deleted and the post_delete signals sent in one transaction, which an
\* exception of a signal rolls back
delete(recs, st, ids, u) ==
    LET left == [x \in (DOMAIN recs) \ ids |-> recs[x]]
        signal == update_user_stats_on_game_delete(left, st, u)
    IN  IF signal.raised
        THEN [raised |-> "TypeError", records |-> recs, stats |-> st]
        ELSE [raised |-> "", records |-> left, stats |-> signal.stats]

(***************************************************************************)
(* Game records: app/game_record/serializers.py.                           *)
(* A request body names the fields it carries (has) and their values (v).  *)
(***************************************************************************)
Body(has, v) == [has |-> has, v |-> v]
NoBody == Body({}, NoGame)

\* data.get(field)
Has(d, field) == field \in d.has

\* the fields' own validation, from the model's validators; time_taken and
\* the puzzle strings have no default, so a full update or a create needs them
fields_valid(d, partial) ==
    /\ Has(d, "score") => d.v.score >= 0 /\ d.v.score <= 1000
    /\ Has(d, "hints_used") => d.v.hints_used >= 0 /\ d.v.hints_used <= 3
    /\ Has(d, "checks_used") => d.v.checks_used >= 0 /\ d.v.checks_used <= 3
    /\ Has(d, "deletions") => d.v.deletions >= 0
    /\ Has(d, "status") => d.v.status \in GameStatusChoices
    /\ ~partial => Has(d, "time_taken")

IsCompleted(d) == Has(d, "status") /\ d.v.status = GAME_COMPLETED

\* the rule both validate methods share; data.get("score", 0)
positive_score_rule(d) ==
    ~(/\ IsCompleted(d)
      /\ Has(d, "won") /\ d.v.won
      /\ (IF Has(d, "score") THEN d.v.score ELSE 0) <= 0)

\* GameRecordCreateSerializer.validate, line 77: `timezone` is
\* datetime.timezone, which has no `now`
create_validate_raises(d) ==
    IsCompleted(d) /\ ~(Has(d, "completed_at") /\ d.v.completed_at)

\* GameRecordCreateSerializer.validate: what it accepts
create_validate(d) ==
    /\ positive_score_rule(d)
    /\ IsCompleted(d) => Has(d, "time_taken") /\ Truthy(d.v.time_taken)

\* GameRecordUpdateSerializer.validate, lines 140-147: time_taken becomes
\* an int, or started_at is null; either way an exception follows before
\* anything is written
update_validate_raises(d, row) ==
    /\ IsCompleted(d)
    /\ Has(d, "completed_at") /\ d.v.completed_at
    /\ ~(Has(d, "time_taken") /\ Truthy(d.v.time_taken))
    /\ ~Truthy(row.time_taken)

\* GameRecordUpdateSerializer.validate: what it accepts
update_validate(d) == positive_score_rule(d)

\* ModelSerializer.create / update: the fields of the body set on the row
ApplyData(row, d) ==
    [f \in DOMAIN row |-> IF f \in d.has THEN d.v[f] ELSE row[f]]

(***************************************************************************)
(* Game records: app/game_record/views.py.  A handler is one action: it    *)
(* runs in one request, with the signals it sends.                         *)
(***************************************************************************)
Answer(op, u, g, code, detail) ==
    [op |-> op, user |-> u, gid |-> g, code |-> code, detail |-> detail,
     row |-> NoGame, ids |-> {}, score |-> 0]

NoAnswer == Answer("none", Anon, 0, 0, <<>>)

sudokuSide ==
    <<sudokus, solutions, nextId, tasks, reqs, last, conns, groups, received, timing,
      detections>>

\* permission_classes = [IsAuthenticated]
NotAuthenticated(op, u, g) ==
    Answer(op, u, g, 401, <<"Authentication credentials were not provided.">>)

GameNotFound(op, u, g) == Answer(op, u, g, 404, <<"Not found.">>)
BadRequest(op, u, g, detail) == Answer(op, u, g, 400, detail)
\* an exception no handler catches
Unhandled(op, u, g, raised) == Answer(op, u, g, 500, <<raised>>)

\* GameRecordViewSet.get_queryset that does not filter on the user
game_queryset_Mutant(u, status_filter) ==
    {g \in DOMAIN records :
        status_filter # Absent => records[g].status = status_filter}

\* GameRecordViewSet.get_queryset: the ids of the rows, status from ?status=
game_queryset(u, status_filter) ==
    {g \in DOMAIN records :
        /\ records[g].user = u
        /\ status_filter # Absent => records[g].status = status_filter}

\* GameRecordViewSet._check_ownership
_check_ownership(row, u) == row.user = u

\* get_object, then _check_ownership
get_object(u, g) == g \in game_queryset(u, Absent) /\ _check_ownership(records[g], u)

\* serializer.save() or instance.save(), then _update_user_stats(), then
\* the response
SaveAndRespond(op, u, g, row, d, code) ==
    LET r == save(records, stats, g, row)
        s == _update_user_stats(r.records, r.stats, u)
    IN  /\ records' = r.records
        /\ stats' = IF r.raised = "" /\ ~s.raised THEN s.stats ELSE r.stats
        /\ nextRecord' = IF g \in DOMAIN r.records /\ g = nextRecord
                         THEN nextRecord + 1 ELSE nextRecord
        /\ cache' = save_cache(cache, row)
        /\ answer' =
             IF r.raised # ""
             THEN [Unhandled(op, u, g, r.raised) EXCEPT !.detail = <<r.raised>> \o
                       (IF ScoreMismatch \in r.errors THEN <<ScoreMismatch>> ELSE <<>>)]
             ELSE IF s.raised THEN Unhandled(op, u, g, "TypeError")
             ELSE [Answer(op, u, g, code, <<>>) EXCEPT !.row = r.records[g]]

Refuse(a) == answer' = a /\ UNCHANGED <<records, stats, nextRecord, cache>>

\* POST /game-records/
GameCreate(u, d, maxRecords) ==
    /\ nextRecord <= maxRecords
    /\ IF ~is_authenticated(u)
       THEN Refuse(NotAuthenticated("create", u, 0))
       ELSE IF ~fields_valid(d, FALSE)
       THEN Refuse(BadRequest("create", u, 0, <<"invalid">>))
       ELSE IF create_validate_raises(d)
       THEN Refuse(Unhandled("create", u, 0, "AttributeError"))
       ELSE IF ~create_validate(d)
       THEN Refuse(BadRequest("create", u, 0, <<"invalid">>))
       ELSE SaveAndRespond("create", u, nextRecord, ApplyData(NewGame(u), d), d, 201)
    /\ UNCHANGED <<instance, refreshing, sudokuSide>>

\* GET /game-records/?status=
GameList(u, status_filter) ==
    /\ IF ~is_authenticated(u)
       THEN Refuse(NotAuthenticated("list", u, 0))
       ELSE Refuse([Answer("list", u, 0, 200, <<>>) EXCEPT
                       !.ids = game_queryset(u, status_filter)])
    /\ UNCHANGED <<instance, refreshing, sudokuSide>>

\* GET /game-records/<id>/
GameRetrieve(u, g) ==
    /\ IF ~is_authenticated(u)
       THEN Refuse(NotAuthenticated("retrieve", u, g))
       ELSE IF ~get_object(u, g)
       THEN Refuse(GameNotFound("retrieve", u, g))
       ELSE Refuse([Answer("retrieve", u, g, 200, <<>>) EXCEPT !.row = records[g]])
    /\ UNCHANGED <<instance, refreshing, sudokuSide>>

\* PUT, PATCH /game-records/<id>/
GameUpdate(u, g, d, partial) ==
    LET op == IF partial THEN "partial_update" ELSE "update"
    IN  /\ IF ~is_authenticated(u)
           THEN Refuse(NotAuthenticated(op, u, g))
           ELSE IF ~get_object(u, g)
           THEN Refuse(GameNotFound(op, u, g))
           ELSE IF ~fields_valid(d, partial)
           THEN Refuse(BadRequest(op, u, g, <<"invalid">>))
           ELSE IF update_validate_raises(d, records[g])
           THEN Refuse(Unhandled(op, u, g, "TypeError"))
           ELSE IF ~update_validate(d)
           THEN Refuse(BadRequest(op, u, g, <<"invalid">>))
           ELSE SaveAndRespond(op, u, g, ApplyData(records[g], d), d, 200)
        /\ UNCHANGED <<instance, refreshing, sudokuSide>>

\* instance.delete() or queryset.delete(), then _update_user_stats(), then
\* the response
DeleteAndRespond(op, u, g, ids, code, detail) ==
    LET r == delete(records, stats, ids, u)
        s == _update_user_stats(r.records, r.stats, u)
    IN  /\ records' = r.records
        /\ stats' = IF r.raised = "" /\ ~s.raised THEN s.stats ELSE r.stats
        /\ answer' =
             IF r.raised # "" THEN [Unhandled(op, u, g, r.raised) EXCEPT !.ids = ids]
             ELSE IF s.raised THEN [Unhandled(op, u, g, "TypeError") EXCEPT !.ids = ids]
             ELSE [Answer(op, u, g, code, detail) EXCEPT !.ids = ids]
        /\ UNCHANGED <<nextRecord, cache>>

\* DELETE /game-records/<id>/
GameDestroy(u, g) ==
    /\ IF ~is_authenticated(u)
       THEN Refuse(NotAuthenticated("destroy", u, g))
       ELSE IF ~get_object(u, g)
       THEN Refuse(GameNotFound("destroy", u, g))
       ELSE DeleteAndRespond("destroy", u, g, {g}, 204, <<>>)
    /\ UNCHANGED <<instance, refreshing, sudokuSide>>

\* the @action list routes: the first `limit` rows of the queryset in its
\* order; rows that compare equal come in any order
FirstRows(ids, limit, Before(_, _)) ==
    {S \in SUBSET ids :
        /\ Cardinality(S) = Min(limit, Cardinality(ids))
        /\ \A x \in S, y \in ids \ S : ~Before(y, x)}

\* order_by("-created_at")
Newer(x, y) == x > y
\* order_by("-score")
BetterScore(x, y) == records[x].score > records[y].score
\* order_by("time_taken")
BetterTime(x, y) == records[x].time_taken < records[y].time_taken

\* limit = min(int(request.query_params.get("limit", 10)), 50)
Limit(param) == Min(param, 50)

\* GET /game-records/recent/?limit=
Recent(u, limit) ==
    /\ IF ~is_authenticated(u)
       THEN Refuse(NotAuthenticated("recent", u, 0))
       ELSE \E S \in FirstRows(game_queryset(u, Absent), Limit(limit), Newer) :
               Refuse([Answer("recent", u, 0, 200, <<>>) EXCEPT !.ids = S])
    /\ UNCHANGED <<instance, refreshing, sudokuSide>>

\* GET /game-records/best_scores/?limit=
BestScores(u, limit) ==
    /\ IF ~is_authenticated(u)
       THEN Refuse(NotAuthenticated("best_scores", u, 0))
       ELSE \E S \in FirstRows(game_queryset(u, Absent), Limit(limit), BetterScore) :
               Refuse([Answer("best_scores", u, 0, 200, <<>>) EXCEPT !.ids = S])
    /\ UNCHANGED <<instance, refreshing, sudokuSide>>

\* GET /game-records/best_times/?limit=
BestTimes(u, limit) ==
    /\ IF ~is_authenticated(u)
       THEN Refuse(NotAuthenticated("best_times", u, 0))
       ELSE \E S \in FirstRows(game_queryset(u, GAME_COMPLETED), Limit(limit), BetterTime) :
               Refuse([Answer("best_times", u, 0, 200, <<>>) EXCEPT !.ids = S])
    /\ UNCHANGED <<instance, refreshing, sudokuSide>>

AlreadyCompleted(u, g) == BadRequest("complete", u, g, <<"Game is already completed">>)

\* POST /game-records/<id>/complete/
Complete(u, g, d) ==
    /\ IF ~is_authenticated(u)
       THEN Refuse(NotAuthenticated("complete", u, g))
       ELSE IF ~get_object(u, g)
       THEN Refuse(GameNotFound("complete", u, g))
       ELSE IF records[g].status = GAME_COMPLETED
       THEN Refuse(AlreadyCompleted(u, g))
       ELSE IF ~fields_valid(d, TRUE)
       THEN Refuse(BadRequest("complete", u, g, <<"invalid">>))
       ELSE IF update_validate_raises(d, records[g])
       THEN Refuse(Unhandled("complete", u, g, "TypeError"))
       ELSE IF ~update_validate(d)
       THEN Refuse(BadRequest("complete", u, g, <<"invalid">>))
       ELSE SaveAndRespond("complete", u, g,
                [ApplyData(records[g], d) EXCEPT !.status = GAME_COMPLETED], d, 200)
    /\ UNCHANGED <<instance, refreshing, sudokuSide>>

\* the statuses abandon and stop refuse
ClosedStatuses == {GAME_COMPLETED, STOPPED, ABANDONED}

CannotAbandon(u, g) ==
    BadRequest("abandon", u, g,
               <<"Cannot abandon a completed, stopped or already abandoned game">>)

\* POST /game-records/<id>/abandon/; line 200 reads GameStatusChoices.STOP,
\* which the enumeration does not have
Abandon(u, g) ==
    /\ IF ~is_authenticated(u)
       THEN Refuse(NotAuthenticated("abandon", u, g))
       ELSE IF ~get_object(u, g)
       THEN Refuse(GameNotFound("abandon", u, g))
       ELSE IF records[g].status \in ClosedStatuses
       THEN Refuse(CannotAbandon(u, g))
       ELSE Refuse(Unhandled("abandon", u, g, "AttributeError"))
    /\ UNCHANGED <<instance, refreshing, sudokuSide>>

CannotStop(u, g) ==
    BadRequest("stop", u, g,
               <<"Cannot stop a completed, stopped or already abandoned game">>)

\* POST /game-records/<id>/stop/; line 225 assigns GameStatusChoices.ABANDONED
Stop(u, g) ==
    /\ IF ~is_authenticated(u)
       THEN Refuse(NotAuthenticated("stop", u, g))
       ELSE IF ~get_object(u, g)
       THEN Refuse(GameNotFound("stop", u, g))
       ELSE IF records[g].status \in ClosedStatuses
       THEN Refuse(CannotStop(u, g))
       ELSE SaveAndRespond("stop", u, g,
                [records[g] EXCEPT !.status = ABANDONED], NoBody, 200)
    /\ UNCHANGED <<instance, refreshing, sudokuSide>>

\* the body of bulk_delete: the ids of existing rows in the list `ids`, and
\* the length of the list
Ids(ids, len) == [ids |-> ids, len |-> len]

\* DELETE /game-records/bulk_delete/
BulkDelete(u, b) ==
    /\ IF ~is_authenticated(u)
       THEN Refuse(NotAuthenticated("bulk_delete", u, 0))
       ELSE IF b.len = 0
       THEN Refuse(BadRequest("bulk_delete", u, 0, <<"No IDs provided">>))
       ELSE IF b.len > 100
       THEN Refuse(BadRequest("bulk_delete", u, 0,
                              <<"Cannot delete more than 100 records at once">>))
       ELSE LET queryset == game_queryset(u, Absent) \cap b.ids
            IN  IF Cardinality(queryset) = 0
                THEN Refuse(Answer("bulk_delete", u, 0, 404, <<"No records found to delete">>))
                ELSE DeleteAndRespond("bulk_delete", u, 0, queryset, 200,
                                      <<"Successfully deleted game records">>)
    /\ UNCHANGED <<instance, refreshing, sudokuSide>>

(***************************************************************************)
(* A GameRecord instance built by hand: calculate_score and save on it.    *)
(***************************************************************************)
CalculateScore ==
    /\ instance # NoGame
    /\ answer' = [Answer("calculate_score", instance.user, 0, 0, <<>>) EXCEPT
                     !.score = calculate_score(instance), !.row = instance]
    /\ UNCHANGED <<records, stats, nextRecord, instance, cache, refreshing, sudokuSide>>

\* instance.save() of a new instance
Save(maxRecords) ==
    /\ instance # NoGame
    /\ nextRecord <= maxRecords
    /\ LET r == save(records, stats, nextRecord, instance)
       IN  /\ records' = r.records
           /\ stats' = r.stats
           /\ nextRecord' = IF nextRecord \in DOMAIN r.records
                            THEN nextRecord + 1 ELSE nextRecord
           /\ cache' = save_cache(cache, instance)
           /\ answer' = [Answer("save", instance.user, nextRecord, 0, <<r.raised>>) EXCEPT
                            !.row = instance,
                            !.detail = <<r.raised>> \o
                               (IF ScoreMismatch \in r.errors
                                THEN <<ScoreMismatch>> ELSE <<>>)]
    /\ UNCHANGED <<instance, refreshing, sudokuSide>>

(***************************************************************************)
(* Statistics views and the refresh task: app/user/views.py,               *)
(* app/user/tasks.py.  The response of stats is what the serializer makes  *)
(* of the cached value; it is taken to be that value.                      *)
(***************************************************************************)
leaderboard_default == 10
leaderboard_max == 100

\* a response of the statistics views: the user asked about and the body
Served(op, u, target, code, body) ==
    [op |-> op, user |-> u, gid |-> 0, code |-> code, detail |-> <<>>,
     row |-> NoGame, ids |-> {}, score |-> 0, target |-> target, body |-> body]

\* UserStatsViewSet._calculate_stats over the rows ids: the counts and the
\* sums; the averages and the extremes are not kept
_calculate_stats(recs, ids) ==
    [total_games |-> Cardinality(ids),
     won_games |-> Count(recs, ids, "won", TRUE),
     lost_games |-> Count(recs, ids, "won", FALSE),
     completed_games |-> Count(recs, ids, "status", GAME_COMPLETED),
     abandoned_games |-> Count(recs, ids, "status", ABANDONED),
     stopped_games |-> Count(recs, ids, "status", STOPPED),
     in_progress_games |-> Count(recs, ids, "status", IN_PROGRESS),
     total_time_seconds |-> Sum(recs, ids, "time_taken"),
     total_score |-> Sum(recs, ids, "score"),
     total_hints_used |-> Sum(recs, ids, "hints_used"),
     total_checks_used |-> Sum(recs, ids, "checks_used"),
     total_deletions |-> Sum(recs, ids, "deletions")]

\* UserStatsViewSet._get_user
_get_user(u, pk) == IF pk = "me" THEN u ELSE pk

\* GET /users/<pk>/stats/, GET /users/me/stats/
Stats(u, pk) ==
    /\ IF ~is_authenticated(u)
       THEN Refuse(NotAuthenticated("stats", u, 0))
       ELSE IF _get_user(u, pk) \notin Users
       THEN Refuse(Answer("stats", u, 0, 404, <<"User not found">>))
       ELSE LET user == _get_user(u, pk)
                cache_key == user_stats_key(user)
                computed == _calculate_stats(records, GamesOf(records, user))
            IN  IF cache_key \in DOMAIN cache
                THEN Refuse(Served("stats", u, user, 200, cache[cache_key]))
                ELSE /\ cache' = cache_set(cache, cache_key, computed)
                     /\ answer' = Served("stats", u, user, 200, computed)
                     /\ UNCHANGED <<records, stats, nextRecord>>
    /\ UNCHANGED <<instance, refreshing, sudokuSide>>

\* POST /users/me/stats/refresh/: the task is dispatched, then the key is
\* deleted
StatsRefresh(u) ==
    /\ IF ~is_authenticated(u)
       THEN Refuse(NotAuthenticated("refresh", u, 0)) /\ UNCHANGED refreshing
       ELSE /\ refreshing' = refreshing \cup {u}
            /\ cache' = cache_delete(cache, user_stats_key(u))
            /\ answer' = Answer("refresh", u, 0, 202, <<"Your stats refresh has been initiated">>)
            /\ UNCHANGED <<records, stats, nextRecord>>
    /\ UNCHANGED <<instance, sudokuSide>>

\* the task refresh_user_stats(user_id), run by a worker
refresh_user_stats(u) ==
    /\ u \in refreshing
    /\ refreshing' = refreshing \ {u}
    /\ LET r == IF u \in DOMAIN stats THEN recalculate_from_games(records, stats, u)
                ELSE [raised |-> TRUE, stats |-> stats]
       IN  /\ stats' = r.stats
           /\ answer' = Answer("refresh_user_stats", u, 0, 0,
                               IF r.raised THEN <<"raised">> ELSE <<>>)
    /\ UNCHANGED <<records, nextRecord, instance, cache, sudokuSide>>

\* min(int(request.query_params.get("limit", 10)), 100); the parameter is a
\* set, empty when it is not given
leaderboard_limit(param) ==
    IF param = {} THEN Min(leaderboard_default, leaderboard_max)
    ELSE Min(CHOOSE x \in param : TRUE, leaderboard_max)

\* the users of the leaderboard query: active, with a game counted
Eligible(st) == {u \in DOMAIN st : st[u].total_games > 0}

\* the orders in which order_by(...)[:limit] can return the rows: by
\* falling total_score; the rows equal on it come in any order, the further
\* keys not being kept
Ranked(st, limit) ==
    LET n == Min(limit, Cardinality(Eligible(st)))
    IN  {q \in [1..n -> Eligible(st)] :
            /\ \A i, j \in 1..n : i < j =>
                   q[i] # q[j] /\ st[q[i]].total_score >= st[q[j]].total_score
            /\ \A u \in Eligible(st) \ {q[i] : i \in 1..n} :
                   \A i \in 1..n : st[q[i]].total_score >= st[u].total_score}

\* the dictionaries of a leaderboard response
LeaderboardRows(st, q) ==
    [i \in DOMAIN q |->
        [user_id |-> UserUuid(q[i]), total_games |-> st[q[i]].total_games,
         won_games |-> st[q[i]].won_games,
         completed_games |-> st[q[i]].completed_games,
         total_score |-> st[q[i]].total_score]]

\* GET /users/stats/leaderboard/?limit=
Leaderboard(u, param) ==
    /\ IF ~is_authenticated(u)
       THEN Refuse(NotAuthenticated("leaderboard", u, 0))
       ELSE LET limit == leaderboard_limit(param)
                cache_key == leaderboard_key(limit)
            IN  IF cache_key \in DOMAIN cache
                THEN Refuse(Served("leaderboard", u, Anon, 200, cache[cache_key]))
                ELSE IF limit < 0
                THEN Refuse(Unhandled("leaderboard", u, 0, "ValueError"))
                ELSE \E q \in Ranked(stats, limit) :
                        /\ cache' = cache_set(cache, cache_key, LeaderboardRows(stats, q))
                        /\ answer' = Served("leaderboard", u, Anon, 200,
                                            LeaderboardRows(stats, q))
                        /\ UNCHANGED <<records, stats, nextRecord>>
    /\ UNCHANGED <<instance, refreshing, sudokuSide>>

\* an entry reaches its timeout (300 s for statistics, 600 s for a
\* leaderboard) and is dropped
Expire(key) ==
    /\ key \in DOMAIN cache
    /\ cache' = cache_delete(cache, key)
    /\ answer' = Answer("expire", Anon, 0, 0, <<key>>)
    /\ UNCHANGED <<records, stats, nextRecord, instance, refreshing, sudokuSide>>

(***************************************************************************)
(* The game-record requests sent.                                          *)
(***************************************************************************)
RecordIds == 1..MaxRecords

Blank == NewGame(Anon)

GameCreateBodies ==
    { Body({"time_taken"}, Blank),
      Body({"time_taken", "won"}, [Blank EXCEPT !.won = TRUE, !.time_taken = 90]),
      Body({"status", "won", "score", "hints_used", "time_taken", "completed_at"},
           [Blank EXCEPT !.status = GAME_COMPLETED, !.won = TRUE, !.score = 1,
                         !.hints_used = 3, !.time_taken = 4200, !.completed_at = TRUE]),
      Body({"status", "won", "time_taken", "completed_at"},
           [Blank EXCEPT !.status = GAME_COMPLETED, !.won = TRUE,
                         !.time_taken = 90, !.completed_at = TRUE]),
      Body({"status", "time_taken"},
           [Blank EXCEPT !.status = GAME_COMPLETED, !.time_taken = 90]),
      Body({"status", "won", "score", "time_taken"},
           [Blank EXCEPT !.status = GAME_COMPLETED, !.won = TRUE, !.score = 500,
                         !.time_taken = 90]),
      Body({"score", "time_taken"}, [Blank EXCEPT !.score = 500]),
      Body({}, Blank) }

\* <<body, partial>>
GameUpdateInputs ==
    { <<Body({"status", "won", "score"},
             [Blank EXCEPT !.status = GAME_COMPLETED, !.won = TRUE, !.score = 1]), TRUE>>,
      <<Body({"status", "won"},
             [Blank EXCEPT !.status = GAME_COMPLETED, !.won = TRUE]), TRUE>>,
      <<Body({"status", "completed_at"},
             [Blank EXCEPT !.status = GAME_COMPLETED, !.completed_at = TRUE]), TRUE>>,
      <<Body({"status"}, Blank), TRUE>>,
      <<Body({}, Blank), FALSE>> }

CompleteBodies ==
    { Body({}, Blank),
      Body({"status"}, [Blank EXCEPT !.status = ABANDONED]),
      Body({"status", "completed_at"},
           [Blank EXCEPT !.status = GAME_COMPLETED, !.completed_at = TRUE]),
      Body({"won", "time_taken"}, [Blank EXCEPT !.won = TRUE, !.time_taken = -60]),
      Body({"won", "hints_used", "time_taken"},
           [Blank EXCEPT !.won = TRUE, !.hints_used = 3, !.time_taken = 4200]),
      Body({"hints_used"}, [Blank EXCEPT !.hints_used = 4]) }

SharedCreateBodies ==
    { Body({"time_taken"}, Blank),
      Body({"time_taken", "won"}, [Blank EXCEPT !.won = TRUE, !.time_taken = 90]) }

SharedUpdateInputs ==
    { <<Body({"status", "won", "score"},
             [Blank EXCEPT !.status = GAME_COMPLETED, !.won = TRUE, !.score = 1]), TRUE>> }

SharedCompleteBodies == { Body({}, Blank) }

BulkBodies ==
    { Ids({}, 0), Ids({1}, 1), Ids({2}, 1), Ids({1, 2}, 2), Ids({1, 2}, 3),
      Ids({1}, 101) }

SharedBulkBodies == { Ids({}, 0), Ids({2}, 1), Ids({1, 2}, 2), Ids({1}, 101) }

StatusFilters == {Absent, GAME_COMPLETED}
Limits == {1, 10}

\* the instances calculate_score and save are applied to
Instances ==
    { GameRow("u1", status, won, score, hints, checks, deletions, time) :
        status \in GameStatusChoices, won \in BOOLEAN, score \in {0, 500},
        hints \in {-1, 0, 3}, checks \in {0, 3}, deletions \in {0, 2},
        time \in {-90, 0, 90, 4200} }

\* the client receives the response
Deliver ==
    /\ last # NoResp
    /\ last' = NoResp
    /\ UNCHANGED <<sudokus, received, solutions, nextId, aside, tasks, reqs>>

(***************************************************************************)
(* The specification.                                                      *)
(***************************************************************************)
Init ==
    /\ sudokus = <<>>
    /\ solutions = {}
    /\ nextId = 1
    /\ tasks = <<>>
    /\ reqs = <<>>
    /\ last = NoResp
    /\ conns = <<>>
    /\ groups = {}
    /\ received = {}
    /\ records = <<>>
    /\ stats = [u \in Users |-> ZeroStats]
    /\ nextRecord = 1
    /\ instance = NoGame
    /\ answer = NoAnswer
    /\ cache = <<>>
    /\ refreshing = {}
    /\ now = 0
    /\ cleanup = NoCleanup
    /\ detections = <<>>

\* the requests that a handler answers or starts in one statement
Requests(R, S, C, CP, UP, maxReq) ==
    \/ \E u \in C, p \in CP : Create(u, p, Cardinality(S))
    \/ \E u \in R, s \in S, q \in UP : UpdateBegin(u, s, q[1], q[2], maxReq)
    \/ \E u \in R, s \in S : DestroyBegin(u, s, maxReq)
    \/ \E u \in R, s \in S : SolveBegin(u, s, maxReq)
    \/ \E u \in R, s \in S : AbortBegin(u, s, maxReq)
    \/ \E u \in R, s \in S : SolutionBegin(u, s, maxReq)
    \/ \E u \in R, s \in S : DeleteSolutionBegin(u, s, maxReq)

Reads(R, S) ==
    \/ \E u \in R, s \in S : Retrieve(u, s)
    \/ \E u \in R, s \in S : Status(u, s)
    \/ \E u \in R, q \in ListParams : List(u, q[1], q[2], q[3])

\* the later statements of the requests in flight
Steps(maxTasks) ==
    \E r \in Slots :
        \/ UpdateSave(r)
        \/ DestroyDelete(r)
        \/ SolveDelay(r, maxTasks)
        \/ SolvePending(r)
        \/ SolveTaskId(r)
        \/ AbortTerminate(r)
        \/ AbortStatus(r)
        \/ AbortTaskId(r)
        \/ SolutionQuery(r)
        \/ DeleteSolutionQuery(r)
        \/ DeleteSolutionDelete(r)
        \/ DeleteSolutionStatus(r)

TaskSteps ==
    \E t \in TaskIds :
        \/ TaskGet(t)
        \/ TaskRunning(t)
        \/ TaskInvalid(t)
        \/ TaskRaise(t)
        \/ TaskCreate(t)
        \/ TaskCompleted(t)
        \/ TaskExcept(t)
        \/ TaskKilled(t)

Next ==
    \/ Requests({"u1", Anon}, 1..OneSudoku, Creators,
                {Payload("a", Absent, Grid(GridLen, 1), Absent)},
                {<<Payload("b", Absent, NoGrid, Absent), TRUE>>}, OneReq)
    \/ Steps(MaxTasks)
    \/ TaskSteps
    \/ Deliver

Spec == Init /\ [][Next]_vars

NextAccess ==
    \/ Requests(Requesters, SudokuIds, Creators, CreatePayloads, UpdateInputs, OneReq)
    \/ Reads(Requesters, SudokuIds)
    \/ Steps(OneTask)
    \/ TaskSteps
    \/ Deliver

SpecAccess == Init /\ [][NextAccess]_vars

\* one sudoku, one task, every payload
NextGrid ==
    \/ Requests({"u1", Anon}, 1..OneSudoku, Creators, CreatePayloads, UpdateInputs, OneReq)
    \/ Steps(OneTask)
    \/ TaskSteps
    \/ Deliver

SpecGrid == Init /\ [][NextGrid]_vars

\* one sudoku, one task, WebSocket connections of its owner and of others
NextPush ==
    \/ Requests({"u1", Anon}, 1..OneSudoku, Creators,
                {Payload("a", Absent, Grid(GridLen, 1), Absent)},
                {<<Payload("b", Absent, NoGrid, Absent), TRUE>>}, OneReq)
    \/ Steps(OneTask)
    \/ TaskSteps
    \/ \E u \in Requesters, c \in Channels : Connect(u, c)
    \/ \E c \in Channels : Disconnect(c)
    \/ Deliver

SpecPush == Init /\ [][NextPush]_vars

\* one user, one sudoku, one task, two requests in flight
NextRace ==
    \/ Requests({"u1"}, 1..OneSudoku, {"u1"},
                {Payload("a", Absent, Grid(GridLen, 1), Absent)},
                {<<Payload("b", Absent, NoGrid, Absent), TRUE>>}, MaxReq)
    \/ Steps(OneTask)
    \/ TaskSteps
    \/ Deliver

SpecRace == Init /\ [][NextRace]_vars

\* anonymous and owned sudokus created, solved and deleted as the hours
\* pass and the cleanup runs
MaxHours == 2
CleanupHours == {0, 1}

NextCleanup ==
    \/ \E u \in Creators : Create(u, Payload("a", Absent, Grid(GridLen, 1), Absent),
                                  MaxSudokus)
    \/ \E u \in Creators, s \in SudokuIds : DestroyBegin(u, s, OneReq)
    \/ \E u \in Creators, s \in SudokuIds : SolveBegin(u, s, OneReq)
    \/ \E r \in Slots :
          \/ DestroyDelete(r)
          \/ SolveDelay(r, OneTask)
          \/ SolvePending(r)
          \/ SolveTaskId(r)
    \/ \E t \in TaskIds :
          \/ TaskGet(t)
          \/ TaskRunning(t)
          \/ TaskInvalid(t)
          \/ TaskRaise(t)
          \/ TaskCreate(t)
          \/ TaskCompleted(t)
          \/ TaskExcept(t)
    \/ Deliver
    \/ \E hours \in CleanupHours : CleanupStart(hours)
    \/ CleanupCount
    \/ CleanupDelete
    \/ Tick(MaxHours)

SpecCleanup == Init /\ [][NextCleanup]_vars

\* runs of the digit detection on every kind of image, side by side
MaxDetections == 3
DetectionIds == 1..MaxDetections

NextDetect ==
    \/ \E image \in Images : DetectStart(image, MaxDetections)
    \/ \E t \in DetectionIds :
          \/ DetectRunning(t)
          \/ DetectDecode(t)
          \/ DetectContour(t)
          \/ DetectDigits(t)
          \/ DetectExcept(t)

SpecDetect == Init /\ [][NextDetect]_vars

\* the requests on game records: the requesters R, the ids G, the bodies of
\* create (CB), update (UI), complete (KB) and bulk_delete (BB)
Games(R, G, CB, UI, KB, BB, maxRecords) ==
    \/ \E u \in R, d \in CB : GameCreate(u, d, maxRecords)
    \/ \E u \in R, f \in StatusFilters : GameList(u, f)
    \/ \E u \in R, g \in G : GameRetrieve(u, g)
    \/ \E u \in R, g \in G, q \in UI : GameUpdate(u, g, q[1], q[2])
    \/ \E u \in R, g \in G : GameDestroy(u, g)
    \/ \E u \in R, n \in Limits : Recent(u, n)
    \/ \E u \in R, n \in Limits : BestScores(u, n)
    \/ \E u \in R, n \in Limits : BestTimes(u, n)
    \/ \E u \in R, g \in G, d \in KB : Complete(u, g, d)
    \/ \E u \in R, g \in G : Abandon(u, g)
    \/ \E u \in R, g \in G : Stop(u, g)
    \/ \E u \in R, b \in BB : BulkDelete(u, b)

\* one user, one game record, every body
NextGame ==
    Games({"u1", Anon}, 1..OneRecord, GameCreateBodies, GameUpdateInputs,
          CompleteBodies, BulkBodies, OneRecord)

SpecGame == Init /\ [][NextGame]_vars

\* two users, two game records, a few bodies
NextShared ==
    Games(Users, RecordIds, SharedCreateBodies, SharedUpdateInputs,
          SharedCompleteBodies, SharedBulkBodies, MaxRecords)

SpecShared == Init /\ [][NextShared]_vars

\* the statistics and the leaderboard read while two users create and
\* delete game records
StatsTargets == {"me", "u2", "u0"}
LeaderboardParams == { {}, {1} }
CacheKeys ==
    {user_stats_key(u) : u \in Users} \cup
    {leaderboard_key(leaderboard_limit(p)) : p \in LeaderboardParams}

NextCache ==
    \/ \E u \in Users, d \in SharedCreateBodies : GameCreate(u, d, MaxRecords)
    \/ \E u \in Users, g \in RecordIds : GameDestroy(u, g)
    \/ \E u \in Users, pk \in StatsTargets : Stats(u, pk)
    \/ \E u \in Users, p \in LeaderboardParams : Leaderboard(u, p)
    \/ \E u \in Users : StatsRefresh(u)
    \/ \E u \in Users : refresh_user_stats(u)
    \/ \E k \in CacheKeys : Expire(k)

SpecCache == Init /\ [][NextCache]_vars

\* a hand-built instance, scored and saved
InitInstance ==
    /\ sudokus = <<>>
    /\ solutions = {}
    /\ nextId = 1
    /\ tasks = <<>>
    /\ reqs = <<>>
    /\ last = NoResp
    /\ conns = <<>>
    /\ groups = {}
    /\ received = {}
    /\ records = <<>>
    /\ stats = [u \in Users |-> ZeroStats]
    /\ nextRecord = 1
    /\ instance \in Instances
    /\ answer = NoAnswer
    /\ cache = <<>>
    /\ refreshing = {}
    /\ now = 0
    /\ cleanup = NoCleanup
    /\ detections = <<>>

NextInstance ==
    \/ CalculateScore
    \/ Save(OneRecord)

SpecInstance == InitInstance /\ [][NextInstance]_vars

(***************************************************************************)
(* The claims.                                                             *)
(***************************************************************************)
\* a step starts a request of u on s that goes on to further statements
Started(op, u, s) ==
    \E r \in DOMAIN reqs' \ DOMAIN reqs :
        reqs'[r].op = op /\ reqs'[r].user = u /\ reqs'[r].sid = s

Targets == SudokuIds

\* C1: a solve request on a visible sudoku is accepted only when the status
\* it reads is Created, Failed or Aborted; with any other status it answers
\* 400 'Cannot solve sudoku with status: <status>', dispatches no task and
\* leaves the sudoku, its task_id and its solution as they were.
C1_SolveOnlySolvable ==
    [][\A u \in Requesters, s \in Targets :
         (SolveBegin(u, s, MaxReq) /\ Visible(u, s)) =>
            IF sudokus[s].status \in {CREATED, FAILED, ABORTED}
            THEN Started("solve", u, s)
            ELSE /\ sudokus[s].status \in {PENDING, RUNNING, COMPLETED, INVALID}
                 /\ last'.op = "solve" /\ last'.code = 400
                 /\ last'.detail =
                       <<"Cannot solve sudoku with status: ", sudokus[s].status>>
                 /\ UNCHANGED <<sudokus, solutions, tasks, reqs>>]_vars

\* C1 witness: a solve request on a completed sudoku was answered 400
C1_Witness ==
    /\ last.op = "solve" /\ last.code = 400
    /\ last.detail = <<"Cannot solve sudoku with status: ", COMPLETED>>
    /\ sudokus[last.sid].status = COMPLETED

\* the edges of the status state machine as the specification gives them
StatusEdges ==
    { <<CREATED, PENDING>>, <<PENDING, RUNNING>>, <<RUNNING, COMPLETED>>,
      <<RUNNING, FAILED>>, <<RUNNING, INVALID>>, <<PENDING, ABORTED>>,
      <<RUNNING, ABORTED>>, <<FAILED, PENDING>>, <<ABORTED, PENDING>>,
      <<COMPLETED, CREATED>> }

\* C2: every change of a sudoku's persisted status follows one of the edges
\* Created -> Pending, Pending -> Running, Running -> Completed | Failed |
\* Invalid, Pending | Running -> Aborted, Failed | Aborted -> Pending,
\* Completed -> Created.
C2_StatusEdges ==
    [][\A s \in DOMAIN sudokus \cap DOMAIN sudokus' :
         sudokus'[s].status # sudokus[s].status =>
            <<sudokus[s].status, sudokus'[s].status>> \in StatusEdges]_vars

\* C3: an abort request on a visible sudoku goes ahead when the status it
\* reads is Running or Pending, and then writes status Aborted and task_id
\* null; with any other status it answers 400 'Cannot abort task with
\* status: <status>' and changes nothing.
C3_AbortOnlyRunningOrPending ==
    [][/\ \A u \in Requesters, s \in Targets :
            (AbortBegin(u, s, MaxReq) /\ Visible(u, s)) =>
               IF sudokus[s].status \in {RUNNING, PENDING}
               THEN Started("abort", u, s)
               ELSE /\ last'.op = "abort" /\ last'.code = 400
                    /\ last'.detail =
                          <<"Cannot abort task with status: ", sudokus[s].status>>
                    /\ UNCHANGED <<sudokus, solutions, tasks, reqs>>
       /\ \A r \in DOMAIN reqs :
            /\ AbortTerminate(r) /\ r \in DOMAIN reqs' => tasks'[reqs[r].task_id].revoked
            /\ AbortStatus(r) /\ r \in DOMAIN reqs' =>
                  sudokus'[reqs[r].sid].status = ABORTED
            /\ AbortTaskId(r) /\ last'.code = 200 =>
                  sudokus'[reqs[r].sid].task_id = NoTask]_vars

\* C4: when a solve request has returned success with a task id and no
\* worker has started that task, the persisted status is Pending and the
\* persisted task_id is the task id of the response.
C4_PendingAfterSolve ==
    (last.op = "solve" /\ last.code = 200 /\ tasks[last.task_id].pc = "queued") =>
        /\ Exists(last.sid)
        /\ sudokus[last.sid].status = PENDING
        /\ sudokus[last.sid].task_id = last.task_id

\* C5: a solution request answers 200 with the solution exactly when the
\* status it reads is Completed and a solution row exists; a status other
\* than Completed gives 404 'Sudoku solution is not available yet', a solution
\* row or not; Completed without a solution row gives 404 'No solution found
\* for this sudoku'; no statement of the request changes the tables.
C5_Solution ==
    [][/\ \A u \in Requesters, s \in Targets :
            (SolutionBegin(u, s, MaxReq) /\ Visible(u, s)) =>
               /\ UNCHANGED <<sudokus, solutions>>
               /\ IF sudokus[s].status = COMPLETED
                  THEN Started("solution", u, s)
                  ELSE /\ last'.op = "solution" /\ last'.code = 404
                       /\ last'.detail = <<"Sudoku solution is not available yet">>
       /\ \A r \in DOMAIN reqs :
            SolutionQuery(r) =>
               /\ UNCHANGED <<sudokus, solutions>>
               /\ reqs[r].read = COMPLETED
               /\ IF \E x \in solutions : x.sudoku = reqs[r].sid
                  THEN /\ last'.code = 200
                       /\ \E x \in solutions :
                             x.sudoku = reqs[r].sid /\ last'.grid = x.grid
                  ELSE /\ last'.code = 404
                       /\ last'.detail = <<"No solution found for this sudoku">>
       /\ (last'.op = "solution" /\ last'.code = 200) =>
             \E r \in DOMAIN reqs : SolutionQuery(r)]_vars

\* C5 witness: a solution request was answered 200 with the grid of the row
C5_Witness ==
    /\ last.op = "solution" /\ last.code = 200
    /\ \E x \in solutions : x.sudoku = last.sid /\ x.grid = last.grid
    /\ last.read = COMPLETED

\* C6: a delete_solution request that finds a solution and has read status
\* Completed removes the solution row, then writes status Created and
\* answers 204; one that finds a solution and has read another status
\* answers 409 and changes nothing; one that finds no solution answers 404
\* and changes nothing.
C6_DeleteSolution ==
    [][/\ \A u \in Requesters, s \in Targets :
            (DeleteSolutionBegin(u, s, MaxReq) /\ Visible(u, s)) =>
               /\ UNCHANGED <<sudokus, solutions>>
               /\ \E r \in DOMAIN reqs' \ DOMAIN reqs :
                     /\ reqs'[r].op = "delete_solution" /\ reqs'[r].sid = s
                     /\ reqs'[r].read = sudokus[s].status
       /\ \A r \in DOMAIN reqs :
            /\ DeleteSolutionQuery(r) =>
                  /\ UNCHANGED <<sudokus, solutions>>
                  /\ IF ~(\E x \in solutions : x.sudoku = reqs[r].sid)
                     THEN /\ last'.code = 404
                          /\ last'.detail = <<"No solution found for this sudoku">>
                     ELSE IF reqs[r].read # COMPLETED
                     THEN last'.code = 409
                     ELSE /\ last' = NoResp
                          /\ r \in DOMAIN reqs'
                          /\ \E x \in solutions :
                                x.sudoku = reqs[r].sid /\ reqs'[r].solution = x.id
            /\ DeleteSolutionDelete(r) =>
                  /\ \A x \in solutions' : x.id # reqs[r].solution
                  /\ UNCHANGED sudokus
                  /\ r \in DOMAIN reqs'
            /\ (DeleteSolutionStatus(r) /\ Exists(reqs[r].sid)) =>
                  /\ sudokus'[reqs[r].sid].status = CREATED
                  /\ last'.code = 204
                  /\ UNCHANGED solutions
       /\ (last'.op = "delete_solution" /\ last'.code = 204) =>
             \E r \in DOMAIN reqs : DeleteSolutionStatus(r) /\ reqs[r].read = COMPLETED
      ]_vars

\* C6 witness: a delete_solution request was answered 204, the row it read is
\* gone and the status is Created
C6_Witness ==
    /\ last.op = "delete_solution" /\ last.code = 204
    /\ \A x \in solutions : x.id # last.solution
    /\ sudokus[last.sid].status = CREATED

\* a request of u that addresses sudoku s, whatever the number of requests
\* in flight
Access(u, s) ==
    \/ Retrieve(u, s)
    \/ Status(u, s)
    \/ \E q \in UpdateInputs : UpdateBegin(u, s, q[1], q[2], MaxReq)
    \/ DestroyBegin(u, s, MaxReq)
    \/ SolveBegin(u, s, MaxReq)
    \/ AbortBegin(u, s, MaxReq)
    \/ SolutionBegin(u, s, MaxReq)
    \/ DeleteSolutionBegin(u, s, MaxReq)

\* the sudokus whose user is the requester (no user for an anonymous one)
Owned(u) == {s \in DOMAIN sudokus : sudokus[s].user = perform_create(u)}

\* a request of anyone but the owner on a sudoku that has an owner is answered
\* 401 or 404 and changes nothing; the requests in flight on such a sudoku
\* are its owner's
NonOwnerDenied ==
    /\ \A u \in Requesters, s \in DOMAIN sudokus :
          (sudokus[s].user # Anon /\ u # sudokus[s].user /\ Access(u, s)) =>
             /\ last'.user = u /\ last'.sid = s
             /\ last'.code \in {401, 404}
             /\ UNCHANGED <<sudokus, solutions, tasks, reqs>>
    /\ \A r \in DOMAIN reqs' :
          (reqs'[r].sid \in DOMAIN sudokus' /\ sudokus'[reqs'[r].sid].user # Anon) =>
             reqs'[r].user = sudokus'[reqs'[r].sid].user
    /\ (last'.op \in {"retrieve", "status"} /\ last'.code = 200) =>
          last'.sid \in Owned(last'.user)

\* C7: a request on a sudoku that has an owner, made by anyone but the
\* owner, is denied (401 or 404) and leaves the sudoku, its task_id, its
\* solution and the tasks unchanged; a list holds only sudokus of the
\* requester (of no user for an anonymous requester), and all of them when
\* no difficulties filter is given and the page, from offset 0, is not
\* smaller than their number.
C7_Isolation ==
    [][/\ NonOwnerDenied
       /\ \A u \in Requesters, q \in ListParams :
            List(u, q[1], q[2], q[3]) =>
               /\ last'.code = 200
               /\ last'.ids \subseteq Owned(u)
               /\ last'.count = Cardinality(get_queryset(u, q[1]))
               /\ (q[1] = {} /\ q[3] = 0 /\ PageSize(Cardinality(Owned(u)), q[2], 0)
                                              = Cardinality(Owned(u))) =>
                     last'.ids = Owned(u)]_vars

\* C7 as stated: the same, but every list holds exactly the sudokus of the
\* requester.
C7_ListExactly ==
    [][/\ NonOwnerDenied
       /\ \A u \in Requesters, q \in ListParams :
            List(u, q[1], q[2], q[3]) => last'.ids = Owned(u)]_vars

\* C7 witness: a solve request of another user on an owned sudoku was
\* answered 404
C7_Witness ==
    /\ last.op = "solve" /\ last.code = 404
    /\ last.sid \in DOMAIN sudokus
    /\ sudokus[last.sid].user \in Users \ {last.user}
    /\ last.user \in Users

C10_OneSolution ==
    [][/\ \A x, y \in solutions' : x.sudoku = y.sudoku => x = y
       /\ \A x \in solutions' : x.sudoku \in DOMAIN sudokus'
       /\ \A t \in DOMAIN tasks :
            (TaskCreate(t) /\ (SolutionsOf(tasks[t].sid) # {} \/ ~Exists(tasks[t].sid))) =>
               /\ solutions' = solutions
               /\ tasks'[t].error = "IntegrityError"
       /\ \A r \in DOMAIN reqs :
            DestroyDelete(r) =>
               /\ reqs[r].sid \notin DOMAIN sudokus'
               /\ \A x \in solutions' : x.sudoku # reqs[r].sid]_vars

\* C10 witness: a second task failed to create a solution for a sudoku whose
\* first solution is in place
C10_Witness ==
    \E t \in DOMAIN tasks :
        /\ tasks[t].error = "IntegrityError"
        /\ \E x \in solutions : x.sudoku = tasks[t].sid /\ x.id # t

\* a create, update or partial_update step that carries grid g
WithGrid(g, bad) ==
    /\ \A u \in Creators, p \in CreatePayloads :
          (Create(u, p, MaxSudokus) /\ p.grid = g /\ bad) =>
             /\ last'.op = "create" /\ last'.code = 400
             /\ UNCHANGED <<sudokus, solutions, tasks, reqs>>
    /\ \A u \in Requesters, s \in SudokuIds, q \in UpdateInputs :
          (UpdateBegin(u, s, q[1], q[2], MaxReq) /\ q[1].grid = g /\ bad) =>
             /\ last'.code = IF ~is_authenticated(u) THEN 401
                             ELSE IF ~Visible(u, s) THEN 404 ELSE 400
             /\ UNCHANGED <<sudokus, solutions, tasks, reqs>>

\* the grids the requests carry
RequestGrids ==
    ({p.grid : p \in CreatePayloads} \cup {q[1].grid : q \in UpdateInputs}) \ {NoGrid}

\* C11: every persisted sudoku has a grid of exactly 81 characters; a
\* create, update or partial update whose grid, once its leading and
\* trailing whitespace is stripped, is shorter or longer than 81 characters
\* is rejected (400 for a request that is permitted and addresses a visible
\* sudoku) and changes nothing; a grid of 81 characters inside whitespace is
\* accepted and saved without the whitespace.
C11_GridLength ==
    [][/\ \A s \in DOMAIN sudokus' : GridLength(sudokus'[s].grid) = GridLen
       /\ \A g \in RequestGrids :
            WithGrid(g, GridLength(to_internal_value(g)) # GridLen)
       /\ \A u \in Creators, p \in CreatePayloads :
            (Create(u, p, MaxSudokus) /\ GridLength(to_internal_value(p.grid)) = GridLen) =>
               /\ last'.code = 201
               /\ sudokus'[nextId].grid = to_internal_value(p.grid)]_vars

\* C11 as stated: every request whose grid is shorter or longer than 81
\* characters is rejected and changes nothing.
C11_RejectsEveryOtherLength ==
    [][/\ \A s \in DOMAIN sudokus' : GridLength(sudokus'[s].grid) = GridLen
       /\ \A g \in RequestGrids : WithGrid(g, GridLength(g) # GridLen)]_vars

\* C11 witness: a partial update with a grid of 82 characters was answered
\* 400 and the sudoku has its grid of 81 characters
C11_Witness ==
    /\ last.op = "partial_update" /\ last.code = 400
    /\ GridLength(last.grid) = GridLen + 1
    /\ last.sid \in DOMAIN sudokus
    /\ GridLength(sudokus[last.sid].grid) = GridLen

\* a step in which a request or a task calls update_sudoku_status(s, status)
StatusWriteStep(s, status) ==
    \/ \E r \in DOMAIN reqs :
          /\ reqs[r].sid = s
          /\ \/ SolvePending(r) /\ status = PENDING
             \/ AbortStatus(r) /\ status = ABORTED
             \/ DeleteSolutionStatus(r) /\ status = CREATED
    \/ \E t \in DOMAIN tasks :
          /\ tasks[t].sid = s
          /\ \/ TaskRunning(t) /\ status = RUNNING
             \/ TaskInvalid(t) /\ status = INVALID
             \/ TaskCompleted(t) /\ status = COMPLETED
             \/ TaskExcept(t) /\ status = FAILED

\* C12: a status written by update_sudoku_status is persisted and its
\* 'status_update' message, with the sudoku id and the new status, reaches
\* every accepted connection of the sudoku's owner: the group it is sent to
\* is a group those connections have joined.
C12_StatusPushed ==
    [][\A s \in DOMAIN sudokus, status \in SudokuStatusChoices :
         StatusWriteStep(s, status) =>
            /\ sudokus'[s].status = status
            /\ \A c \in DOMAIN conns :
                  conns[c] = sudokus[s].user =>
                     /\ <<room_group_name(s), c>> \in groups
                     /\ <<c, status_update(s, status)>> \in received']_vars

\* the whole minutes of a number of seconds, rounded down
WholeMinutes(seconds, m) == 60 * m <= seconds /\ seconds < 60 * (m + 1)

Scored == answer.op = "calculate_score"

C14_SavedScore ==
    [][Save(OneRecord) =>
         /\ \A x \in DOMAIN records' :
               records'[x].score = calculate_score(records'[x])
         /\ instance.status = GAME_COMPLETED =>
               /\ nextRecord \in DOMAIN records' =>
                     records'[nextRecord].score = calculate_score(instance)
               /\ clean_fields([instance EXCEPT !.score = calculate_score(instance)]) = {}
                     => nextRecord \in DOMAIN records'
         /\ (instance.status # GAME_COMPLETED /\ instance.score # 0) =>
               /\ answer'.detail[1] = "ValidationError"
               /\ \E i \in DOMAIN answer'.detail : answer'.detail[i] = ScoreMismatch
               /\ UNCHANGED <<records, stats, nextRecord>>]_vars

\* a completed winning instance that carried another score is in the table
\* with the computed score
C14_Witness ==
    /\ answer.op = "save"
    /\ answer.row.status = GAME_COMPLETED /\ answer.row.won
    /\ 1 \in DOMAIN records
    /\ records[1].score = 985 /\ answer.row.score = 500

\* C15: a completed winning game persisted through the create and update
\* serializers, the complete action included, has a score above 0.
C15_PositiveScore ==
    \A g \in DOMAIN records :
        (records[g].status = GAME_COMPLETED /\ records[g].won) => records[g].score > 0

\* the requester's own record g, which a detail route acts on
Own(u, g) == is_authenticated(u) /\ g \in DOMAIN records /\ records[g].user = u

\* the handler answered 200 with the record as it is now in the table
Returned(g) == answer'.code = 200 /\ g \in DOMAIN records' /\ answer'.row = records'[g]

\* the handler answered 400 and wrote nothing
Refused400 == answer'.code = 400 /\ UNCHANGED <<records, stats>>

\* C16: abandon on an in_progress record persists the status abandoned,
\* refreshes the user's statistics and returns the record; on a completed,
\* stopped or abandoned record it answers 400 and changes nothing.
C16_Abandon ==
    [][\A u \in Users, g \in RecordIds :
         (Abandon(u, g) /\ Own(u, g)) =>
            /\ records[g].status = IN_PROGRESS =>
                  /\ Returned(g)
                  /\ records'[g] = [records[g] EXCEPT !.status = ABANDONED]
                  /\ stats'[u].abandoned_games =
                        Count(records', GamesOf(records', u), "status", ABANDONED)
            /\ records[g].status \in {GAME_COMPLETED, STOPPED, ABANDONED} => Refused400]_vars

\* C17: stop on an in_progress record persists the status stopped, refreshes
\* the user's statistics and returns the record; on a completed, stopped or
\* abandoned record it answers 400 and changes nothing.
C17_Stop ==
    [][\A u \in Users, g \in RecordIds :
         (Stop(u, g) /\ Own(u, g)) =>
            /\ records[g].status = IN_PROGRESS =>
                  /\ Returned(g)
                  /\ records'[g] = [records[g] EXCEPT !.status = STOPPED]
                  /\ stats'[u].stopped_games =
                        Count(records', GamesOf(records', u), "status", STOPPED)
            /\ records[g].status \in {GAME_COMPLETED, STOPPED, ABANDONED} => Refused400]_vars

\* the data the update serializer accepts
ValidData(d) == fields_valid(d, TRUE) /\ update_validate(d)

\* C18: complete on a record that is not completed, with valid data,
\* persists it as completed whatever status the body names, with the score
\* recomputed, and returns it; on a completed record it answers 400 'Game is
\* already completed'; with invalid data it answers 400 and changes nothing.
C18_Complete ==
    [][\A u \in Users, g \in RecordIds, d \in CompleteBodies :
         (Complete(u, g, d) /\ Own(u, g)) =>
            /\ (records[g].status # GAME_COMPLETED /\ ValidData(d)) =>
                  /\ Returned(g)
                  /\ records'[g].status = GAME_COMPLETED
                  /\ records'[g].score = calculate_score(records'[g])
            /\ records[g].status = GAME_COMPLETED =>
                  Refused400 /\ answer'.detail = <<"Game is already completed">>
            /\ (records[g].status # GAME_COMPLETED /\ ~ValidData(d)) => Refused400]_vars

DetailRoutes ==
    {"retrieve", "update", "partial_update", "destroy", "complete", "abandon", "stop"}

OwnRecords(u) == {g \in DOMAIN records : records[g].user = u}
Kept(g) == g \in DOMAIN records' /\ records'[g] = records[g]

\* the request answered by this step: its route, its requester, its record
Answered(op, u, g) ==
    /\ answer' # answer \/ records' # records
    /\ answer'.op = op /\ answer'.user = u /\ answer'.gid = g

\* a request reads and writes the requester's records only, and a request
\* on another user's record is denied
TouchesOwnOnly ==
    /\ \A u \in Users :
          (answer'.user = u /\ answer'.op # "none") =>
             /\ \A g \in (DOMAIN records) \ OwnRecords(u) : Kept(g)
             /\ answer'.ids \subseteq OwnRecords(u)
             /\ answer'.row # NoGame => answer'.row.user = u
    /\ \A u \in Users, g \in DOMAIN records, op \in DetailRoutes :
          (Answered(op, u, g) /\ g \notin OwnRecords(u)) =>
             /\ answer'.code = 404
             /\ UNCHANGED <<records, stats>>

\* bulk_delete refuses an empty list and a list of more than 100 ids
BulkRefuses ==
    \A u \in Users, b \in SharedBulkBodies :
        (BulkDelete(u, b) /\ (b.len = 0 \/ b.len > 100)) => Refused400

\* bulk_delete deletes the requester's records among the ids, and no other
BulkDeletesOwn ==
    \A u \in Users, b \in SharedBulkBodies :
        (BulkDelete(u, b) /\ b.len > 0 /\ b.len <= 100) =>
            /\ DOMAIN records' = (DOMAIN records) \ (b.ids \cap OwnRecords(u))
            /\ \A g \in DOMAIN records' : Kept(g)

\* C19: every game-record operation touches the requester's records only, a
\* request on another user's record is denied and leaves it unchanged,
\* bulk_delete deletes exactly the requester's own records among the ids,
\* and an empty list or more than 100 ids is answered 400 with nothing
\* deleted.
C19_OwnRecordsOnly == [][TouchesOwnOnly /\ BulkRefuses /\ BulkDeletesOwn]_vars


\* C20: after any create, update, complete, abandon, stop, delete or bulk
\* delete, a user's statistics are the aggregates over the user's current
\* game records: total_games their number, won_games + lost_games and the
\* four status counts adding up to it, total_score and total_time_seconds
\* the sums of score and time_taken; all zero when there is no record.
C20_StatsMatch ==
    \A u \in Users :
        LET ids == OwnRecords(u)
            s == stats[u]
        IN  /\ s.total_games = Cardinality(ids)
            /\ s.won_games + s.lost_games = s.total_games
            /\ s.completed_games + s.abandoned_games + s.stopped_games
                  + s.in_progress_games = s.total_games
            /\ s.total_score = Sum(records, ids, "score")
            /\ s.total_time_seconds = Sum(records, ids, "time_taken")

\* C21: every statistics response is computed from the game records the
\* user has when it is served: no save or delete of a record of that user
\* has finished since the values were computed.
C21_StatsFresh ==
    [][(answer'.op = "stats" /\ answer'.code = 200) =>
          answer'.body = _calculate_stats(records', GamesOf(records', answer'.target))]_vars

\* the routes that answer 200 or 201 after GameRecord.save has returned
SavingRoutes == {"create", "update", "partial_update", "complete", "abandon", "stop"}
LeaderboardKeys == {leaderboard_key(leaderboard_limit(p)) : p \in LeaderboardParams}

\* C22: when a request has saved a game record, the cache holds no
\* leaderboard entry, for any limit: none written before the save is left
\* to be served.
C22_LeaderboardCleared ==
    [][(answer'.op \in SavingRoutes /\ answer'.code \in {200, 201}) =>
          DOMAIN cache' \cap LeaderboardKeys = {}]_vars

\* the sudokus a run of the cleanup is to remove: no user, created before
\* the hour the run started minus its parameter
Expired(run) ==
    {s \in DOMAIN sudokus :
        sudokus[s].user = Anon /\ sudokus[s].created_at < run.started - run.hours}

\* C23: a run of cleanup_anonymous_sudokus(hours) takes its cutoff from the
\* clock, and its delete removes exactly the sudokus without a user created
\* before now - hours, with their solutions, whatever their status; every
\* other sudoku and solution is kept as it was; the number it returns is the
\* number of sudokus removed; its other steps delete nothing.
C23_Cleanup ==
    [][/\ (cleanup.pc = "idle" /\ cleanup'.pc = "count") => cleanup'.started = now
       /\ (cleanup.pc = "delete" /\ cleanup'.pc = "idle") =>
             LET gone == (DOMAIN sudokus) \ DOMAIN sudokus'
             IN  /\ gone = Expired(cleanup)
                 /\ \A s \in DOMAIN sudokus' : s \in DOMAIN sudokus /\ sudokus'[s] = sudokus[s]
                 /\ solutions' = {x \in solutions : x.sudoku \notin gone}
                 /\ cleanup'.result = Cardinality(gone)
                 /\ cleanup'.hours = cleanup.hours
       /\ (cleanup' # cleanup /\ cleanup.pc # "delete") =>
             UNCHANGED <<sudokus, solutions>>]_vars

\* a run has removed one sudoku and left one that is as old and has an owner
C23_Witness ==
    /\ cleanup.pc = "idle"
    /\ Cardinality(cleanup.removed) = 1
    /\ \E s \in DOMAIN sudokus :
          /\ sudokus[s].user = "u1"
          /\ sudokus[s].created_at < cleanup.started - cleanup.hours
          /\ sudokus[s].status # CREATED

\* the step of task t in a transition: from one position to the next
TaskMoves(t, from, to) ==
    /\ t \in DOMAIN tasks /\ tasks[t].pc = from
    /\ tasks'[t].pc = to

\* the status of the sudoku of task t is written in the transition
TaskWrote(t, status) ==
    /\ tasks[t].sid \in DOMAIN sudokus'
    /\ sudokus'[tasks[t].sid].status = status

\* C24: a solve_sudoku task that has found its sudoku writes Running first;
\* after that its steps are: Invalid written and the result 'failed', no
\* solution created; or one solution row with the solver's grid created and
\* then Completed written and the result 'completed'; or a step raises and
\* then Failed is written and the result is 'failed'.  A task stopped by a
\* terminate signal is set aside.
C24_TaskOrder ==
    [][\A t \in DOMAIN tasks :
          (tasks'[t] # tasks[t] /\ tasks[t].pc \in {"got", "running", "created", "except"}
              /\ tasks'[t].pc # "killed" /\ tasks'[t].revoked = tasks[t].revoked) =>
             \/ /\ TaskMoves(t, "got", "running") /\ TaskWrote(t, RUNNING)
             \/ /\ TaskMoves(t, "running", "done") /\ TaskWrote(t, INVALID)
                /\ tasks'[t].result = "failed" /\ solutions' = solutions
             \/ /\ TaskMoves(t, "running", "created")
                /\ \E x \in solutions' \ solutions :
                      /\ solutions' = solutions \cup {x}
                      /\ x.sudoku = tasks[t].sid
                      /\ x.grid = SolvedGrid(sudokus[tasks[t].sid].grid)
             \/ /\ TaskMoves(t, "created", "done") /\ TaskWrote(t, COMPLETED)
                /\ tasks'[t].result = "completed"
             \/ /\ \E from \in {"got", "running", "created"} : TaskMoves(t, from, "except")
                /\ UNCHANGED <<sudokus, solutions>>
             \/ /\ TaskMoves(t, "except", "done") /\ TaskWrote(t, FAILED)
                /\ tasks'[t].result = "failed"]_vars

\* a create body for a completed game that carries no completed_at, has a
\* time_taken and a positive score
CompletedWithoutDate(d) ==
    /\ IsCompleted(d) /\ ~Has(d, "completed_at")
    /\ Has(d, "time_taken") /\ d.v.time_taken > 0
    /\ Has(d, "score") /\ d.v.score > 0

\* C25: a create request for a completed game without completed_at, with
\* time_taken and a positive score, is answered 201 and the record is
\* persisted with completed_at set; a create request for a completed game
\* without time_taken persists no record.
C25_AutoCompletedAt ==
    [][\A d \in GameCreateBodies :
          GameCreate("u1", d, OneRecord) =>
             /\ CompletedWithoutDate(d) =>
                   /\ answer'.code = 201
                   /\ nextRecord \in DOMAIN records'
                   /\ records'[nextRecord].completed_at
             /\ (IsCompleted(d) /\ ~Has(d, "time_taken")) =>
                   answer'.code = 400 /\ records' = records]_vars

\* C26: a run of detect_sudoku_digits that has sent Running and has returned
\* has sent exactly one more status after it: Completed when it returned
\* 'success', with a grid of 81 characters, Failed when it returned 'error'.
C26_FinalStatus ==
    \A t \in DOMAIN detections :
        LET run == detections[t]
        IN  (run.pc = "done" /\ Len(run.pushed) > 0 /\ run.pushed[1] = RUNNING) =>
               /\ Len(run.pushed) = 2
               /\ run.result = "success" =>
                     run.pushed[2] = COMPLETED /\ GridLength(run.grid) = GridLen
               /\ run.result = "error" => run.pushed[2] = FAILED

====
